---- MODULE Spec2Model ----
(***************************************************************************)
(* Device fleet controller of cheesy-arena: the switch health monitors     *)
(* (network/netgear_switch.go, network/tplinkswitch.go), the Raspberry Pi  *)
(* provisioning jobs (web/rpi_setup.go) and the station-stop ingestion     *)
(* handler (web/station_stops.go).                                         *)
(***************************************************************************)
EXTENDS Integers, Sequences, FiniteSets, TLC

(***************************************************************************)
(* Bounds of the model.                                                    *)
(***************************************************************************)
\* Last instant (seconds) at which the monitor loop still polls.
MaxTime == 42
\* Number of Reboot() calls in one behaviour.
MaxReboots == 2
\* Longest time (seconds) a reachability probe adds to the poll period.
MaxProbeDelay == 1
\* The history counters of consecutive samples stop counting here.
RunCap == 6
\* Run requests (of either job class) in one behaviour.
MaxRequests == 2
\* Longest secret, in characters.
MaxSecretLen == 2
\* Station-stop reports in one behaviour.
MaxReports == 2
\* Last instant (seconds) of the arena clock.
MaxClock == 3

(***************************************************************************)
(* Program constants.                                                      *)
(***************************************************************************)
pollPeriod == 1
needOK == 3
needFail == 5
defaultGrace == 30
tplinkGrace == 40

(***************************************************************************)
(* Health monitor: one switch, of the Netgear or of the TP-Link family.    *)
(***************************************************************************)
VARIABLES
    family,          \* "netgear" | "tplink": which driver the device uses
    Status,          \* NetgearPlusSwitch.Status / TPLinkSwitch.Status
    lastRebootAt,    \* 0 is the zero time.Time (IsZero)
    rebootGrace,     \* grace window, seconds
    consecutiveOK,   \* NetgearPlusSwitch.consecutiveOK
    consecutiveFail, \* NetgearPlusSwitch.consecutiveFail
    now,             \* wall clock, seconds
    pollPc,          \* position of the monitor goroutine in its loop body
    reachable,       \* the sample the current poll took
    pollWrite,       \* the value the poll is about to store in Status
    rebootPc,        \* position of the goroutine that runs Reboot()
    reboots,         \* Reboot() calls so far
    okRun,           \* history: consecutive reachable samples up to now
    failRun,         \* history: consecutive unreachable samples up to now
    okSinceReboot,   \* history: consecutive reachable samples since the
                     \* last reboot request was sent
    event,           \* history: the operation that completed last
    logLine          \* the status line the poll under way has printed

monVars == <<family, Status, lastRebootAt, rebootGrace, consecutiveOK,
             consecutiveFail, now, pollPc, reachable, pollWrite, rebootPc,
             reboots, okRun, failRun, okSinceReboot, event, logLine>>

(***************************************************************************)
(* Provisioning jobs: rpiGlobal ("display") and rpiStopsGlobal ("stops").   *)
(***************************************************************************)
VARIABLES
    jobState,        \* class -> rpiJob.state ("" until the first run)
    jobLog,          \* class -> rpiJob.log
    jobLast,         \* class -> rpiJob.last
    reqs,            \* request id -> the handler call and the goroutine it
                     \* started: class, form, position, locals, response
    jobSnap          \* history: the (state, log) answered by the status
                     \* handler that ran last, if no other step followed it

jobVars == <<jobState, jobLog, jobLast, reqs, jobSnap>>

(***************************************************************************)
(* Station-stop ingestion: settings, stations, and the last report.        *)
(***************************************************************************)
VARIABLES
    UseStationRpiStops, \* EventSettings.UseStationRpiStops
    StationRpiSecret,   \* EventSettings.StationRpiSecret
    stations,           \* station id -> remote stop flags and last update
    clock,              \* time of the arena, seconds
    reports,            \* reports handled so far
    stopPc,             \* position of the handler in the current report
    lastReport,         \* history: the last report and its response
    view                \* the station view of the last status query

stopVars == <<UseStationRpiStops, StationRpiSecret, stations, clock, reports,
              stopPc, lastReport, view>>

(***************************************************************************)
(* Subnet mask validation: one mask text and the result of parsing it.     *)
(***************************************************************************)
VARIABLES
    maskIn,          \* the mask text handed to parseMaskToCIDR
    maskOut,         \* its result: the CIDR length, or -1 for an error
    maskPc           \* "pending" | "parsed"

maskVars == <<maskIn, maskOut, maskPc>>

(***************************************************************************)
(* Subnet scan for SSH: one call of scanSubnetForSSH.                      *)
(***************************************************************************)
VARIABLES
    scanCidr,        \* the subnet text: an address of 10.0.100.0/24 (its last
                     \* byte) and the number of host bits
    sshOpen,         \* the addresses (last bytes) that accept a dial on :22
    scanIps,         \* ips: the addresses to probe, in order
    launched,        \* probes started by the launch loop
    inFlight,        \* addresses whose probe goroutine holds a slot of sem
    scanOut,         \* the channel out: results sent and not yet received
    received,        \* results received by the collect loop
    scanFound,       \* found
    dials,           \* history: address -> number of dials made to it
    scanPc           \* "idle" | "parse" | "launch" | "collect" | "done"

scanVars == <<scanCidr, sshOpen, scanIps, launched, inFlight, scanOut,
              received, scanFound, dials, scanPc>>

(***************************************************************************)
(* Netgear reboot: one call of rebootWithLogin.                            *)
(***************************************************************************)
VARIABLES
    rbPc,            \* position of rebootWithLogin
    rbUp,            \* whether the device answers a ping now
    rbPostErr,       \* history: the error client.Do gave the reboot POST
    rbHttp,          \* history: the status of the response to the POST
    rbErr,           \* err: what postRebootConsiderRebooting returned
    rbProbes,        \* history: pingICMP calls made since the POST
    rbLastPing,      \* history: what the last of these calls found
    rbResult         \* what rebootWithLogin returned ("nil": success)

rbVars == <<rbPc, rbUp, rbPostErr, rbHttp, rbErr, rbProbes, rbLastPing,
            rbResult>>

(***************************************************************************)
(* Score summary: the realtime score of one alliance, the fouls of its     *)
(* opponent, and the summaries computed from them.                         *)
(***************************************************************************)
VARIABLES
    score,           \* Score of the alliance: PlayoffDq and the generic maps
    oppFouls,        \* opponentScore.Fouls
    foulPoints,      \* the value of a major and of a minor foul
    summaries        \* history: the summaries returned since the score or
                     \* the fouls last changed

scoreVars == <<score, oppFouls, foulPoints, summaries>>

(***************************************************************************)
(* Challenge authentication: one call of mergeStrings.                     *)
(***************************************************************************)
VARIABLES
    mergeA,          \* a: the plain password
    mergeB,          \* b: the nonce of the login page
    mergeOut,        \* the merged string
    mergePc          \* "pending" | "merged"

mergeVars == <<mergeA, mergeB, mergeOut, mergePc>>

(***************************************************************************)
(* Address enumeration of a scan: the loop over the subnet.                *)
(***************************************************************************)
VARIABLES
    enumNet,         \* ipNet: the network address and the prefix length
    enumIp,          \* ip: the loop variable
    enumLen,         \* len(ips)
    enumPc           \* "idle" | "loop" | "done"

enumVars == <<enumNet, enumIp, enumLen, enumPc>>

(***************************************************************************)
(* Station-stop ingestion, concurrent: the handlers of several reports.    *)
(***************************************************************************)
VARIABLES
    handlers         \* handler id -> position, report, snapshots, log lines

ingestVars == <<handlers>>

vars == <<monVars, jobVars, stopVars, maskVars, scanVars, rbVars, scoreVars,
          mergeVars, enumVars, ingestVars>>

Statuses == {"UNKNOWN", "CONFIGURING", "ACTIVE", "ERROR"}

\* NewNetgearPlusSwitch / NewTPLinkSwitch: the fields the monitor uses.
NewNetgearPlusSwitch ==
    /\ family = "netgear"
    /\ Status = "UNKNOWN"
    /\ rebootGrace = defaultGrace
    /\ lastRebootAt = 0
    /\ consecutiveOK = 0
    /\ consecutiveFail = 0

NewTPLinkSwitch ==
    /\ family = "tplink"
    /\ Status = "UNKNOWN"
    /\ rebootGrace = tplinkGrace
    /\ lastRebootAt = 0
    /\ consecutiveOK = 0
    /\ consecutiveFail = 0

\* !lastRebootAt.IsZero() && time.Since(lastRebootAt) < rebootGrace
InGrace == lastRebootAt # 0 /\ now - lastRebootAt < rebootGrace

\* Faulty variant of NetgearOnReachable: the threshold test is dropped.
NetgearOnReachable_NoThreshold(st, ok) ==
    IF st # "ACTIVE" THEN "ACTIVE" ELSE "none"

\* Faulty variant of NetgearOnReachable: only CONFIGURING is left for ACTIVE.
NetgearOnReachable_FromConfiguringOnly(st, ok) ==
    IF ok >= needOK /\ st = "CONFIGURING" THEN "ACTIVE" ELSE "none"

\* The reachable branch of NetgearPlusSwitch.updateMonitoring: the value it
\* stores in Status ("none": no store), given the incremented counter.
NetgearOnReachable(st, ok) ==
    IF ok >= needOK /\ st # "ACTIVE" THEN "ACTIVE" ELSE "none"

\* Faulty variant of NetgearOnUnreachable: the failure threshold is tested
\* before the grace window.
NetgearOnUnreachable_ThresholdFirst(st, fail, grace) ==
    IF fail >= needFail /\ st # "ERROR" THEN "ERROR"
    ELSE IF grace /\ st # "CONFIGURING" THEN "CONFIGURING" ELSE "none"

\* Faulty variant of NetgearOnUnreachable: any failure count is enough.
NetgearOnUnreachable_NoThreshold(st, fail, grace) ==
    IF grace
    THEN IF st # "CONFIGURING" THEN "CONFIGURING" ELSE "none"
    ELSE IF st # "ERROR" THEN "ERROR" ELSE "none"

\* The unreachable branch of NetgearPlusSwitch.updateMonitoring.
NetgearOnUnreachable(st, fail, grace) ==
    IF grace
    THEN IF st # "CONFIGURING" THEN "CONFIGURING" ELSE "none"
    ELSE IF fail >= needFail /\ st # "ERROR" THEN "ERROR" ELSE "none"

\* Faulty variant of NetgearNextOK: a failed sample does not reset the count.
NetgearNextOK_NoReset(ok, reach) == IF reach THEN ok + 1 ELSE ok

\* The counters after one sample.
NetgearNextOK(ok, reach) == IF reach THEN ok + 1 ELSE 0
NetgearNextFail(fail, reach) == IF reach THEN 0 ELSE fail + 1

\* TPLinkSwitch.updateMonitoring: the value it stores in Status.
TPLinkOnSample(reach, grace) ==
    IF reach THEN "ACTIVE" ELSE IF grace THEN "CONFIGURING" ELSE "ERROR"

\* No status line, and the two forms of a status line: "status changed
\* from <old> to <new>." and the one that tells the time since the reboot.
NoLog == [to |-> "", elapsed |-> -1]
Changed(st) == [to |-> st, elapsed |-> -1]
ChangedIn(st, d) == [to |-> st, elapsed |-> d]

\* time.Since(lastRebootAt), in seconds
SinceReboot == now - lastRebootAt

\* The log.Printf of NetgearPlusSwitch.updateMonitoring: one line for each
\* store; the line of a change from CONFIGURING to ACTIVE after a reboot
\* tells the time since lastRebootAt.
NetgearLogLine(st, write) ==
    IF write = "none" THEN NoLog
    ELSE IF write = "ACTIVE" /\ st = "CONFIGURING" /\ lastRebootAt # 0
         THEN ChangedIn("ACTIVE", SinceReboot)
         ELSE Changed(write)

\* Faulty variant of TPLinkLogLine: the line never tells the elapsed time.
TPLinkLogLine_NoElapsed(st, reach, grace) ==
    IF reach
    THEN IF st # "ACTIVE" THEN Changed("ACTIVE") ELSE NoLog
    ELSE IF grace
         THEN IF st # "CONFIGURING" THEN Changed("CONFIGURING") ELSE NoLog
         ELSE IF st # "ERROR" THEN Changed("ERROR") ELSE NoLog

\* The log.Printf of TPLinkSwitch.updateMonitoring: a line when the status
\* changes; the line of a change to ACTIVE inside the grace window tells
\* the time since lastRebootAt.
TPLinkLogLine(st, reach, grace) ==
    IF reach
    THEN IF st # "ACTIVE"
         THEN IF grace THEN ChangedIn("ACTIVE", SinceReboot)
                       ELSE Changed("ACTIVE")
         ELSE NoLog
    ELSE IF grace
         THEN IF st # "CONFIGURING" THEN Changed("CONFIGURING") ELSE NoLog
         ELSE IF st # "ERROR" THEN Changed("ERROR") ELSE NoLog

Capped(n) == IF n > RunCap THEN RunCap ELSE n

\* Run: sleep one poll period, then take one sample (pingICMP or
\* isReachableTCP80); the sample is any of reachable / unreachable.
PollProbe ==
    /\ UNCHANGED <<jobVars, stopVars, maskVars, scanVars, rbVars>>
    /\ UNCHANGED <<scoreVars, mergeVars, enumVars, ingestVars>>
    /\ UNCHANGED logLine
    /\ pollPc = "sleep"
    /\ \E d \in 0..MaxProbeDelay, r \in BOOLEAN :
          /\ now + pollPeriod + d <= MaxTime
          /\ now' = now + pollPeriod + d
          /\ reachable' = r
          /\ okRun' = IF r THEN Capped(okRun + 1) ELSE 0
          /\ failRun' = IF r THEN 0 ELSE Capped(failRun + 1)
          /\ okSinceReboot' = IF r THEN Capped(okSinceReboot + 1) ELSE 0
    /\ pollPc' = "sampled"
    /\ UNCHANGED <<family, Status, lastRebootAt, rebootGrace, consecutiveOK,
                   consecutiveFail, pollWrite, rebootPc, reboots, event>>

\* NetgearPlusSwitch.updateMonitoring after the sample: the counters, the
\* reads of Status and lastRebootAt, and the decision what to store.
NetgearUpdateMonitoring ==
    /\ UNCHANGED <<jobVars, stopVars, maskVars, scanVars, rbVars>>
    /\ UNCHANGED <<scoreVars, mergeVars, enumVars, ingestVars>>
    /\ family = "netgear"
    /\ pollPc = "sampled"
    /\ consecutiveOK' = NetgearNextOK(consecutiveOK, reachable)
    /\ consecutiveFail' = NetgearNextFail(consecutiveFail, reachable)
    /\ pollWrite' = IF reachable
                    THEN NetgearOnReachable(Status, consecutiveOK')
                    ELSE NetgearOnUnreachable(Status, consecutiveFail', InGrace)
    /\ logLine' = NetgearLogLine(Status, pollWrite')
    /\ pollPc' = "decided"
    /\ UNCHANGED <<family, Status, lastRebootAt, rebootGrace, now, reachable,
                   rebootPc, reboots, okRun, failRun, okSinceReboot, event>>

\* TPLinkSwitch.updateMonitoring after the sample.
TPLinkUpdateMonitoring ==
    /\ UNCHANGED <<jobVars, stopVars, maskVars, scanVars, rbVars>>
    /\ UNCHANGED <<scoreVars, mergeVars, enumVars, ingestVars>>
    /\ logLine' = TPLinkLogLine(Status, reachable, InGrace)
    /\ family = "tplink"
    /\ pollPc = "sampled"
    /\ pollWrite' = TPLinkOnSample(reachable, InGrace)
    /\ pollPc' = "decided"
    /\ UNCHANGED <<family, Status, lastRebootAt, rebootGrace, consecutiveOK,
                   consecutiveFail, now, reachable, rebootPc, reboots, okRun,
                   failRun, okSinceReboot, event>>

\* The store into Status that ends updateMonitoring (s.Status = ...); the
\* struct has no lock, so a Reboot may have run since the decision.
PollStore ==
    /\ UNCHANGED <<jobVars, stopVars, maskVars, scanVars, rbVars>>
    /\ UNCHANGED <<scoreVars, mergeVars, enumVars, ingestVars>>
    /\ logLine' = NoLog
    /\ pollPc = "decided"
    /\ Status' = IF pollWrite = "none" THEN Status ELSE pollWrite
    /\ pollWrite' = "none"
    /\ pollPc' = "sleep"
    /\ event' = "poll"
    /\ UNCHANGED <<family, lastRebootAt, rebootGrace, consecutiveOK,
                   consecutiveFail, now, reachable, rebootPc, reboots, okRun,
                   failRun, okSinceReboot>>

\* NetgearPlusSwitch.Reboot, failing: the device is unreachable before the
\* attempt, or rebootWithLogin returns an error.
NetgearRebootFail ==
    /\ UNCHANGED <<jobVars, stopVars, maskVars, scanVars, rbVars>>
    /\ UNCHANGED <<scoreVars, mergeVars, enumVars, ingestVars>>
    /\ UNCHANGED logLine
    /\ family = "netgear"
    /\ rebootPc = "idle"
    /\ reboots < MaxReboots
    /\ reboots' = reboots + 1
    /\ Status' = "ERROR"
    /\ event' = "rebootFailed"
    /\ UNCHANGED <<family, lastRebootAt, rebootGrace, consecutiveOK,
                   consecutiveFail, now, pollPc, reachable, pollWrite,
                   rebootPc, okRun, failRun, okSinceReboot>>

\* NetgearPlusSwitch.Reboot, request sent: s.lastRebootAt = time.Now().
NetgearRebootStamp ==
    /\ UNCHANGED <<jobVars, stopVars, maskVars, scanVars, rbVars>>
    /\ UNCHANGED <<scoreVars, mergeVars, enumVars, ingestVars>>
    /\ UNCHANGED logLine
    /\ family = "netgear"
    /\ rebootPc = "idle"
    /\ reboots < MaxReboots
    /\ reboots' = reboots + 1
    /\ lastRebootAt' = now
    /\ rebootPc' = "stamped"
    /\ okSinceReboot' = 0
    /\ UNCHANGED <<family, Status, rebootGrace, consecutiveOK, consecutiveFail,
                   now, pollPc, reachable, pollWrite, okRun, failRun, event>>

\* NetgearPlusSwitch.Reboot, request sent: s.Status = "CONFIGURING".
NetgearRebootFlip ==
    /\ UNCHANGED <<jobVars, stopVars, maskVars, scanVars, rbVars>>
    /\ UNCHANGED <<scoreVars, mergeVars, enumVars, ingestVars>>
    /\ UNCHANGED logLine
    /\ family = "netgear"
    /\ rebootPc = "stamped"
    /\ Status' = "CONFIGURING"
    /\ rebootPc' = "idle"
    /\ event' = "rebootSent"
    /\ UNCHANGED <<family, lastRebootAt, rebootGrace, consecutiveOK,
                   consecutiveFail, now, pollPc, reachable, pollWrite, reboots,
                   okRun, failRun, okSinceReboot>>

\* Faulty variant of TPLinkRebootFail: the failure is stored in Status.
TPLinkRebootFail_SetsError ==
    /\ UNCHANGED <<jobVars, stopVars, maskVars, scanVars, rbVars>>
    /\ UNCHANGED <<scoreVars, mergeVars, enumVars, ingestVars>>
    /\ UNCHANGED logLine
    /\ family = "tplink"
    /\ rebootPc = "idle"
    /\ reboots < MaxReboots
    /\ reboots' = reboots + 1
    /\ Status' = "ERROR"
    /\ event' = "rebootFailed"
    /\ UNCHANGED <<family, lastRebootAt, rebootGrace, consecutiveOK,
                   consecutiveFail, now, pollPc, reachable, pollWrite,
                   rebootPc, okRun, failRun, okSinceReboot>>

\* TPLinkSwitch.Reboot, rebootWithLogin returns an error: only a log line.
TPLinkRebootFail ==
    /\ UNCHANGED <<jobVars, stopVars, maskVars, scanVars, rbVars>>
    /\ UNCHANGED <<scoreVars, mergeVars, enumVars, ingestVars>>
    /\ UNCHANGED logLine
    /\ family = "tplink"
    /\ rebootPc = "idle"
    /\ reboots < MaxReboots
    /\ reboots' = reboots + 1
    /\ event' = "rebootFailed"
    /\ UNCHANGED <<family, Status, lastRebootAt, rebootGrace, consecutiveOK,
                   consecutiveFail, now, pollPc, reachable, pollWrite,
                   rebootPc, okRun, failRun, okSinceReboot>>

\* TPLinkSwitch.Reboot, request sent: TPLS.lastRebootAt = time.Now().
TPLinkRebootSent ==
    /\ UNCHANGED <<jobVars, stopVars, maskVars, scanVars, rbVars>>
    /\ UNCHANGED <<scoreVars, mergeVars, enumVars, ingestVars>>
    /\ UNCHANGED logLine
    /\ family = "tplink"
    /\ rebootPc = "idle"
    /\ reboots < MaxReboots
    /\ reboots' = reboots + 1
    /\ lastRebootAt' = now
    /\ okSinceReboot' = 0
    /\ event' = "rebootSent"
    /\ UNCHANGED <<family, Status, rebootGrace, consecutiveOK, consecutiveFail,
                   now, pollPc, reachable, pollWrite, rebootPc, okRun, failRun>>

MonInit ==
    /\ NewNetgearPlusSwitch \/ NewTPLinkSwitch
    /\ now = 1
    /\ pollPc = "sleep"
    /\ reachable = FALSE
    /\ pollWrite = "none"
    /\ rebootPc = "idle"
    /\ reboots = 0
    /\ okRun = 0
    /\ failRun = 0
    /\ okSinceReboot = 0
    /\ event = "init"
    /\ logLine = NoLog

MonNext ==
    \/ PollProbe
    \/ NetgearUpdateMonitoring
    \/ TPLinkUpdateMonitoring
    \/ PollStore
    \/ NetgearRebootFail
    \/ NetgearRebootStamp
    \/ NetgearRebootFlip
    \/ TPLinkRebootFail
    \/ TPLinkRebootSent

MonIdle ==
    /\ NewNetgearPlusSwitch
    /\ now = 1
    /\ pollPc = "sleep"
    /\ reachable = FALSE
    /\ pollWrite = "none"
    /\ rebootPc = "idle"
    /\ reboots = 0
    /\ okRun = 0
    /\ failRun = 0
    /\ okSinceReboot = 0
    /\ event = "init"
    /\ logLine = NoLog

(***************************************************************************)
(* Netgear reboot: rebootWithLogin and postRebootConsiderRebooting.        *)
(***************************************************************************)
\* Errors client.Do may give, by their text.
DoErrors ==
    {"read: connection reset by peer", "write: connection aborted",
     "write: broken pipe", "use of closed network connection",
     "Client.Timeout exceeded while awaiting headers",
     "context deadline exceeded", "EOF",
     "connect: connection refused", "connect: no route to host"}

\* Statuses of the response to the reboot POST (resp.Status).
HttpStatuses ==
    {"200 OK", "302 Found", "401 Unauthorized", "408 Request Timeout",
     "500 Internal Server Error", "504 Gateway Timeout"}

\* resp.StatusCode/100 == 2 || resp.StatusCode/100 == 3
IsSuccessStatus(st) == st \in {"200 OK", "302 Found"}

\* fmt.Errorf("reboot failed: %s", resp.Status)
RebootFailed(st) ==
    CASE st = "401 Unauthorized" -> "reboot failed: 401 Unauthorized"
      [] st = "408 Request Timeout" -> "reboot failed: 408 Request Timeout"
      [] st = "500 Internal Server Error" ->
            "reboot failed: 500 Internal Server Error"
      [] st = "504 Gateway Timeout" -> "reboot failed: 504 Gateway Timeout"
      [] OTHER -> "reboot failed"

\* looksLikeConnectionDrop: the lowered text holds "connection reset",
\* "connection aborted", "broken pipe" or "use of closed network
\* connection".
looksLikeConnectionDrop(err) ==
    err \in {"read: connection reset by peer", "write: connection aborted",
             "write: broken pipe", "use of closed network connection"}

\* Faulty variant of looksLikeTimeout: io.EOF is not recognised.
looksLikeTimeout_NoEOF(err) ==
    err \in {"Client.Timeout exceeded while awaiting headers",
             "context deadline exceeded",
             "reboot failed: 408 Request Timeout",
             "reboot failed: 504 Gateway Timeout"}

\* looksLikeTimeout: the lowered text holds "timeout" or "deadline
\* exceeded", or the error is io.EOF.
looksLikeTimeout(err) ==
    err \in {"Client.Timeout exceeded while awaiting headers",
             "context deadline exceeded", "EOF",
             "reboot failed: 408 Request Timeout",
             "reboot failed: 504 Gateway Timeout"}

\* rebootWithLogin returns r.
RebootReturns(r) ==
    /\ rbResult' = r
    /\ rbPc' = "returned"

\* The device stops or starts answering.
DeviceFlips ==
    /\ rbPc \notin {"idle", "returned", "done"}
    /\ rbUp' = ~rbUp
    /\ UNCHANGED <<rbPc, rbPostErr, rbHttp, rbErr, rbProbes, rbLastPing,
                   rbResult>>
    /\ UNCHANGED <<monVars, jobVars, stopVars, maskVars, scanVars>>
    /\ UNCHANGED <<scoreVars, mergeVars, enumVars, ingestVars>>

\* Reboot, waitUntilReachable: the device answers a ping, or the budget
\* runs out and Reboot stores ERROR.
RebootWait ==
    /\ rbPc = "wait"
    /\ IF rbUp
       THEN /\ rbPc' = "prefetch"
            /\ UNCHANGED <<rbResult, monVars>>
       ELSE /\ rbPc' = "done"
            /\ rbResult' = "device unreachable before reboot attempt"
            /\ Status' = "ERROR"
            /\ UNCHANGED <<family, lastRebootAt, rebootGrace, consecutiveOK,
                           consecutiveFail, now, pollPc, reachable, pollWrite,
                           rebootPc, reboots, okRun, failRun, okSinceReboot,
                           event, logLine>>
    /\ UNCHANGED <<rbUp, rbPostErr, rbHttp, rbErr, rbProbes, rbLastPing>>
    /\ UNCHANGED <<jobVars, stopVars, maskVars, scanVars>>
    /\ UNCHANGED <<scoreVars, mergeVars, enumVars, ingestVars>>

\* Reboot after rebootWithLogin: ERROR on an error, else the time of the
\* reboot and CONFIGURING.
RebootFinish ==
    /\ rbPc = "returned"
    /\ rbPc' = "done"
    /\ IF rbResult = "nil"
       THEN lastRebootAt' = now /\ Status' = "CONFIGURING"
       ELSE Status' = "ERROR" /\ UNCHANGED lastRebootAt
    /\ UNCHANGED <<family, rebootGrace, consecutiveOK, consecutiveFail, now,
                   pollPc, reachable, pollWrite, rebootPc, reboots, okRun,
                   failRun, okSinceReboot, event, logLine>>
    /\ UNCHANGED <<rbUp, rbPostErr, rbHttp, rbErr, rbProbes, rbLastPing,
                   rbResult>>
    /\ UNCHANGED <<jobVars, stopVars, maskVars, scanVars>>
    /\ UNCHANGED <<scoreVars, mergeVars, enumVars, ingestVars>>

\* rebootWithLogin, the login page: fetchPage gives the page or an error.
RebootPrefetch ==
    /\ rbPc = "prefetch"
    /\ \/ RebootReturns("login prefetch")
       \/ rbPc' = "login" /\ UNCHANGED rbResult
    /\ UNCHANGED <<rbUp, rbPostErr, rbHttp, rbErr, rbProbes, rbLastPing>>
    /\ UNCHANGED <<monVars, jobVars, stopVars, maskVars, scanVars>>
    /\ UNCHANGED <<scoreVars, mergeVars, enumVars, ingestVars>>

\* rebootWithLogin, tryLoginOnce: a transport error, a login the index
\* page does not confirm, or a login.
RebootLogin ==
    /\ rbPc = "login"
    /\ \/ RebootReturns("login")
       \/ RebootReturns("login verify failed")
       \/ rbPc' = "hash" /\ UNCHANGED rbResult
    /\ UNCHANGED <<rbUp, rbPostErr, rbHttp, rbErr, rbProbes, rbLastPing>>
    /\ UNCHANGED <<monVars, jobVars, stopVars, maskVars, scanVars>>
    /\ UNCHANGED <<scoreVars, mergeVars, enumVars, ingestVars>>

\* rebootWithLogin, fetchDashboardHash: no hash, or the hash to post.
RebootHash ==
    /\ rbPc = "hash"
    /\ \/ RebootReturns("no reboot hash from dashboard")
       \/ rbPc' = "post" /\ UNCHANGED rbResult
    /\ UNCHANGED <<rbUp, rbPostErr, rbHttp, rbErr, rbProbes, rbLastPing>>
    /\ UNCHANGED <<monVars, jobVars, stopVars, maskVars, scanVars>>
    /\ UNCHANGED <<scoreVars, mergeVars, enumVars, ingestVars>>

\* postRebootConsiderRebooting, the POST: client.Do fails, and the error
\* is taken for a success if it looks like a dropped connection or a
\* timeout and is returned otherwise; or the device responds, and a 2xx or
\* 3xx status is a success.
RebootPost ==
    /\ rbPc = "post"
    /\ \/ \E e \in DoErrors :
             /\ rbPostErr' = e
             /\ UNCHANGED rbHttp
             /\ IF looksLikeConnectionDrop(e) \/ looksLikeTimeout(e)
                THEN RebootReturns("nil") /\ UNCHANGED rbErr
                ELSE rbErr' = e /\ rbPc' = "outer" /\ UNCHANGED rbResult
       \/ \E st \in HttpStatuses :
             /\ rbHttp' = st
             /\ UNCHANGED <<rbPostErr, rbErr>>
             /\ IF IsSuccessStatus(st)
                THEN RebootReturns("nil")
                ELSE rbPc' = "inner" /\ UNCHANGED rbResult
    /\ UNCHANGED <<rbUp, rbProbes, rbLastPing>>
    /\ UNCHANGED <<monVars, jobVars, stopVars, maskVars, scanVars>>
    /\ UNCHANGED <<scoreVars, mergeVars, enumVars, ingestVars>>

\* postRebootConsiderRebooting after a status outside 2xx and 3xx: "if it
\* went down immediately after, call it success", else "reboot failed".
RebootInnerProbe ==
    /\ rbPc = "inner"
    /\ rbProbes' = rbProbes + 1
    /\ rbLastPing' = rbUp
    /\ IF ~rbUp
       THEN RebootReturns("nil") /\ UNCHANGED rbErr
       ELSE rbErr' = RebootFailed(rbHttp) /\ rbPc' = "outer"
            /\ UNCHANGED rbResult
    /\ UNCHANGED <<rbUp, rbPostErr, rbHttp>>
    /\ UNCHANGED <<monVars, jobVars, stopVars, maskVars, scanVars>>
    /\ UNCHANGED <<scoreVars, mergeVars, enumVars, ingestVars>>

\* rebootWithLogin on an error of postRebootConsiderRebooting: success if
\* the ping fails or the error looks like a dropped connection or a
\* timeout, else the error.
RebootOuterProbe ==
    /\ rbPc = "outer"
    /\ rbProbes' = rbProbes + 1
    /\ rbLastPing' = rbUp
    /\ IF ~rbUp \/ looksLikeConnectionDrop(rbErr) \/ looksLikeTimeout(rbErr)
       THEN RebootReturns("nil")
       ELSE RebootReturns(rbErr)
    /\ UNCHANGED <<rbUp, rbPostErr, rbHttp, rbErr>>
    /\ UNCHANGED <<monVars, jobVars, stopVars, maskVars, scanVars>>
    /\ UNCHANGED <<scoreVars, mergeVars, enumVars, ingestVars>>

\* No reboot is under way.
RebootIdle ==
    /\ rbPc = "idle"
    /\ rbUp = TRUE
    /\ rbPostErr = ""
    /\ rbHttp = ""
    /\ rbErr = ""
    /\ rbProbes = 0
    /\ rbLastPing = TRUE
    /\ rbResult = ""

\* Reboot is called.
RebootInit ==
    /\ rbPc = "wait"
    /\ rbUp \in BOOLEAN
    /\ rbPostErr = ""
    /\ rbHttp = ""
    /\ rbErr = ""
    /\ rbProbes = 0
    /\ rbLastPing = TRUE
    /\ rbResult = ""

RebootNext ==
    \/ DeviceFlips
    \/ RebootWait
    \/ RebootPrefetch
    \/ RebootLogin
    \/ RebootHash
    \/ RebootPost
    \/ RebootInnerProbe
    \/ RebootOuterProbe
    \/ RebootFinish

(***************************************************************************)
(* Provisioning jobs.                                                      *)
(***************************************************************************)
JobClasses == {"display", "stops"}

\* Texts that net.ParseIP accepts, by address family; every other text of
\* the model parses to nil.
IPv4Texts == {"10.0.100.41", "10.0.100.2", "10.0.100.199"}
IPv6Texts == {"fe80::1"}

\* net.ParseIP(s) != nil
ParsesAsIP(s) == s \in IPv4Texts \cup IPv6Texts

\* ip := net.ParseIP(s); ip != nil && ip.To4() != nil
ParsesAsIPv4(s) == s \in IPv4Texts

\* A subnet mask text: empty, a decimal number, a dotted quad, an IPv6
\* literal, or text that is neither.
EmptyMask == [kind |-> "empty", n |-> 0, bytes |-> <<>>]
DecimalMask(k) == [kind |-> "decimal", n |-> k, bytes |-> <<>>]
DottedMask(b) == [kind |-> "dotted", n |-> 0, bytes |-> b]
IPv6Mask == [kind |-> "v6", n |-> 0, bytes |-> <<>>]
TextMask == [kind |-> "text", n |-> 0, bytes |-> <<>>]

\* (b >> i) & 1
Bit(b, i) == (b \div (2 ^ i)) % 2
\* b & ((1 << i) - 1)
LowBits(b, i) == b % (2 ^ i)

\* The inner loop of parseMaskToCIDR over one byte, from bit i down: the
\* number of one-bits counted, or -1 for "non-contiguous netmask".  The
\* first zero bit ends the loop over this byte only.
RECURSIVE ByteOnes(_, _)
ByteOnes(b, i) ==
    IF i < 0 THEN 0
    ELSE IF Bit(b, i) = 1
         THEN LET rest == ByteOnes(b, i - 1)
              IN  IF rest < 0 THEN -1 ELSE 1 + rest
         ELSE IF LowBits(b, i) # 0 THEN -1 ELSE 0

\* The outer loop of parseMaskToCIDR over the bytes from index k on.
RECURSIVE MaskOnes(_, _)
MaskOnes(bytes, k) ==
    IF k > Len(bytes) THEN 0
    ELSE LET here == ByteOnes(bytes[k], 7)
             rest == MaskOnes(bytes, k + 1)
         IN  IF here < 0 \/ rest < 0 THEN -1 ELSE here + rest

\* Faulty variant of parseMaskToCIDR: the range test of the decimal form is
\* off by one at both ends.
parseMaskToCIDR_RangeOffByOne(mask) ==
    CASE mask.kind = "empty" -> -1
      [] mask.kind = "decimal" -> IF mask.n < 1 \/ mask.n > 33 THEN -1 ELSE mask.n
      [] mask.kind = "dotted" -> MaskOnes(mask.bytes, 1)
      [] OTHER -> -1

\* parseMaskToCIDR: the CIDR length, or -1 for an error.
parseMaskToCIDR(mask) ==
    CASE mask.kind = "empty" -> -1
      [] mask.kind = "decimal" -> IF mask.n < 0 \/ mask.n > 32 THEN -1 ELSE mask.n
      [] mask.kind = "dotted" -> MaskOnes(mask.bytes, 1)
      [] OTHER -> -1

\* The bytes of the dotted masks of the model: every prefix byte, and
\* bytes with a zero above a one.
MaskBytes == {0, 1, 128, 160, 192, 224, 240, 248, 252, 254, 255}

\* The mask texts of the model.
MaskInputs ==
    {EmptyMask, IPv6Mask, TextMask}
        \cup {DecimalMask(k) : k \in -1..33}
        \cup {DottedMask(<<a, b, c, d>>) : a \in MaskBytes, b \in MaskBytes,
                                          c \in MaskBytes, d \in MaskBytes}

\* The mask validation of a Run: parseMaskToCIDR applied to the mask text.
ParseMask ==
    /\ maskPc = "pending"
    /\ maskOut' = parseMaskToCIDR(maskIn)
    /\ maskPc' = "parsed"
    /\ UNCHANGED maskIn
    /\ UNCHANGED <<monVars, jobVars, stopVars, scanVars, rbVars>>
    /\ UNCHANGED <<scoreVars, mergeVars, enumVars, ingestVars>>

MaskIdle ==
    /\ maskIn = EmptyMask
    /\ maskOut = 0
    /\ maskPc = "pending"

MaskInit ==
    /\ maskIn \in MaskInputs
    /\ maskOut = 0
    /\ maskPc = "pending"

MaskNext == ParseMask

\* firstIP: the first entry of the list that is an IPv4 address, else "".
\* The text is modelled already split at ',', ' ' and ';'.
RECURSIVE firstIP(_)
firstIP(dns) ==
    IF dns = <<>> THEN ""
    ELSE IF ParsesAsIPv4(Head(dns)) THEN Head(dns) ELSE firstIP(Tail(dns))

\* Faulty variant of ToUpper: the text is left as it is.
ToUpper_Identity(id) == id

\* strings.ToUpper on the station ids of the model.
ToUpper(id) ==
    CASE id = "r1" -> "R1"
      [] id = "b3" -> "B3"
      [] OTHER -> id

isValidStationId(station) == station \in {"R1", "R2", "R3", "B1", "B2", "B3"}

\* The forms a request may carry.
RawForms ==
    { [StationId |-> "r1", Host |-> "10.0.100.41", StaticHost |-> "10.0.100.41",
       SubnetMask |-> DottedMask(<<255, 255, 255, 0>>),
       Gateway |-> "10.0.100.2", DNS |-> <<"10.0.100.2">>],
      [StationId |-> "", Host |-> "", StaticHost |-> "10.0.100.2",
       SubnetMask |-> EmptyMask, Gateway |-> "", DNS |-> <<>>],
      [StationId |-> "B3", Host |-> "pi.local", StaticHost |-> "10.0.100.41",
       SubnetMask |-> DecimalMask(24),
       Gateway |-> "fe80::1", DNS |-> <<"fe80::1", "10.0.100.2">>],
      [StationId |-> "x9", Host |-> "", StaticHost |-> "10.0.100.41",
       SubnetMask |-> DecimalMask(33),
       Gateway |-> "gw", DNS |-> <<"fe80::1">>] }

\* The zero value of rpiPageData / rpiStopsPageData.
NoForm ==
    [StationId |-> "", Host |-> "", StaticHost |-> "", SubnetMask |-> EmptyMask,
     Gateway |-> "", DNS |-> <<>>]

\* "Defaults where appropriate" of rpiRunPostHandler / rpiStopsRunPostHandler.
WithDefaults(c, raw) ==
    [StationId |-> IF c = "stops"
                   THEN ToUpper(IF raw.StationId = "" THEN "R1" ELSE raw.StationId)
                   ELSE raw.StationId,
     Host |-> IF raw.Host = "" THEN "10.0.100.199" ELSE raw.Host,
     StaticHost |-> raw.StaticHost,
     SubnetMask |-> IF raw.SubnetMask = EmptyMask
                    THEN DottedMask(<<255, 255, 255, 0>>) ELSE raw.SubnetMask,
     Gateway |-> IF raw.Gateway = "" THEN "10.0.100.2" ELSE raw.Gateway,
     DNS |-> IF raw.DNS = <<>> THEN <<"10.0.100.2">> ELSE raw.DNS]

\* "Required IP inputs": TRUE when the handler does not answer 400.
FormValid(c, form) ==
    /\ c = "stops" => isValidStationId(form.StationId)
    /\ form.StaticHost # "" /\ ParsesAsIP(form.StaticHost)
    /\ form.SubnetMask # EmptyMask
    /\ parseMaskToCIDR(form.SubnetMask) >= 0
    /\ form.Gateway # "" /\ ParsesAsIP(form.Gateway)
    /\ form.DNS # <<>> /\ ParsesAsIP(firstIP(form.DNS))

\* A line of the job log.
Line(tag, arg) == [tag |-> tag, arg |-> arg]

\* Hosts a scan may report, and the orders it may report them in.
ScanHosts == {"10.0.100.1", "10.0.100.7"}
ScanOutcomes ==
    {<<>>, <<"10.0.100.7">>, <<"10.0.100.1", "10.0.100.7">>,
     <<"10.0.100.7", "10.0.100.1">>}

\* strings.HasSuffix(ip, ".1") || strings.HasSuffix(ip, ".254")
LikelyGateway(ip) == ip \in {"10.0.100.1", "10.0.100.254"}

\* Faulty variant of Deprioritize: the two groups are joined the wrong way
\* round.
Deprioritize_GatewaysFirst(found) ==
    SelectSeq(found, LAMBDA ip : LikelyGateway(ip))
        \o SelectSeq(found, LAMBDA ip : ~LikelyGateway(ip))

\* prios / deprios of the run: the hosts that are (not) likely gateways, in
\* the order found.
Deprioritize(found) ==
    SelectSeq(found, LAMBDA ip : ~LikelyGateway(ip))
        \o SelectSeq(found, LAMBDA ip : LikelyGateway(ip))

\* What configurePi / configureStopsPi returned for the current target: the
\* step that failed ("": none), whether the error is of the connection
\* reset or timeout class, and whether the host still answers a probe.
NoErr == [step |-> "", drop |-> FALSE, hostUp |-> TRUE]
ConfigureResults ==
    {[step |-> st, drop |-> FALSE, hostUp |-> TRUE] :
        st \in {"", "ssh dial", "render script", "upload script"}}
      \cup {[step |-> "sudo launch", drop |-> d, hostUp |-> h] :
                d \in BOOLEAN, h \in BOOLEAN}

\* A request id not in use.
NoReq ==
    [class |-> "", form |-> NoForm, hostGiven |-> FALSE, pc |-> "unused",
     resp |-> 0, targets |-> <<>>, idx |-> 1, successes |-> 0, failures |-> 0,
     panicked |-> FALSE, lastErr |-> NoErr]

ReqIds == 1..MaxRequests

\* The last step was not a status query.
NoSnap == [class |-> "", state |-> "", log |-> <<>>]

\* A request whose handler has answered and whose goroutine, if any, has
\* returned.
Exited(c, resp) == [NoReq EXCEPT !.class = c, !.pc = "exited", !.resp = resp]

\* Positions of the goroutine started by an accepted request.
RunPcs == {"resolve", "connect", "configure", "errline", "summary",
           "failures", "setdone", "seterror"}

\* The asynchronous runs of class c that have not ended.
ActiveRuns(c) == {i \in ReqIds : reqs[i].class = c /\ reqs[i].pc \in RunPcs}

\* Faulty variant of appendf: the line is put in front.
appendf_Prepends(c, line) == jobLog' = [jobLog EXCEPT ![c] = <<line>> \o @]

\* j.appendf
appendf(c, line) == jobLog' = [jobLog EXCEPT ![c] = Append(@, line)]

\* Faulty variant of RunAdmit: the Running test is missing.
RunAdmit_NoCheck(i) ==
    /\ reqs[i].pc = "locking"
    /\ LET c == reqs[i].class IN
          /\ jobState' = [jobState EXCEPT ![c] = "Running"]
          /\ jobLog' = [jobLog EXCEPT
                          ![c] = <<Line("Starting...", reqs[i].form.Host)>>]
          /\ reqs' = [reqs EXCEPT ![i].pc = "resolve", ![i].resp = 303]
    /\ UNCHANGED jobLast
    /\ UNCHANGED <<monVars, stopVars, maskVars, scanVars, rbVars>>
    /\ UNCHANGED <<scoreVars, mergeVars, enumVars, ingestVars>>
    /\ jobSnap' = NoSnap

\* Faulty variant of RunAdmit: the rejection also reports in the job log.
RunAdmit_LogsConflict(i) ==
    /\ reqs[i].pc = "locking"
    /\ LET c == reqs[i].class IN
          IF jobState[c] = "Running"
          THEN /\ reqs' = [reqs EXCEPT ![i] = Exited(c, 409)]
               /\ appendf(c, Line("Provisioning already running", ""))
               /\ UNCHANGED jobState
          ELSE /\ jobState' = [jobState EXCEPT ![c] = "Running"]
               /\ jobLog' = [jobLog EXCEPT
                               ![c] = <<Line("Starting...", reqs[i].form.Host)>>]
               /\ reqs' = [reqs EXCEPT ![i].pc = "resolve", ![i].resp = 303]
    /\ UNCHANGED jobLast
    /\ UNCHANGED <<monVars, stopVars, maskVars, scanVars, rbVars>>
    /\ UNCHANGED <<scoreVars, mergeVars, enumVars, ingestVars>>
    /\ jobSnap' = NoSnap

\* rpiRunPostHandler / rpiStopsRunPostHandler up to the sticky values: the
\* form is read, completed with defaults and validated; a valid form is
\* stored with setLast, an invalid one is answered 400.
RunPost(i, c, raw) ==
    /\ reqs[i].pc = "unused"
    /\ \A k \in ReqIds : k < i => reqs[k].pc # "unused"
    /\ LET form == WithDefaults(c, raw) IN
          IF FormValid(c, form)
          THEN /\ jobLast' = [jobLast EXCEPT ![c] = form]
               /\ reqs' = [reqs EXCEPT ![i] =
                             [NoReq EXCEPT !.class = c, !.form = form,
                                           !.hostGiven = raw.Host # "",
                                           !.pc = "locking"]]
          ELSE /\ reqs' = [reqs EXCEPT ![i] = Exited(c, 400)]
               /\ UNCHANGED jobLast
    /\ UNCHANGED <<jobState, jobLog>>
    /\ UNCHANGED <<monVars, stopVars, maskVars, scanVars, rbVars>>
    /\ UNCHANGED <<scoreVars, mergeVars, enumVars, ingestVars>>
    /\ jobSnap' = NoSnap

\* "Only one run at a time": the critical section under rpiGlobal.mu that
\* answers 409 or marks the job Running, seeds the log and starts the
\* goroutine.
RunAdmit(i) ==
    /\ reqs[i].pc = "locking"
    /\ LET c == reqs[i].class IN
          IF jobState[c] = "Running"
          THEN /\ reqs' = [reqs EXCEPT ![i] = Exited(c, 409)]
               /\ UNCHANGED <<jobState, jobLog>>
          ELSE /\ jobState' = [jobState EXCEPT ![c] = "Running"]
               /\ jobLog' = [jobLog EXCEPT
                               ![c] = <<Line("Starting...", reqs[i].form.Host)>>]
               /\ reqs' = [reqs EXCEPT ![i].pc = "resolve", ![i].resp = 303]
    /\ UNCHANGED jobLast
    /\ UNCHANGED <<monVars, stopVars, maskVars, scanVars, rbVars>>
    /\ UNCHANGED <<scoreVars, mergeVars, enumVars, ingestVars>>
    /\ jobSnap' = NoSnap

\* The goroutine, target resolution: the given host, or the scan with its
\* log lines and the de-prioritised candidate list; found is what the scan
\* returns, said tells whether "Scanning ..." is in the log already.
RunResolveWith(i, found, said) ==
    /\ reqs[i].pc = "resolve"
    /\ LET c == reqs[i].class
           form == reqs[i].form
       IN  IF form.Host # ""
           THEN /\ reqs' = [reqs EXCEPT ![i].targets = <<form.Host>>,
                                        ![i].pc = "connect"]
                /\ UNCHANGED jobLog
           ELSE IF Len(found) = 0
                THEN /\ jobLog' = [jobLog EXCEPT ![c] =
                           @ \o (IF said THEN <<>> ELSE <<Line("Scanning", "")>>)
                             \o <<Line("No hosts found.", "")>>]
                     /\ reqs' = [reqs EXCEPT ![i].pc = "seterror"]
                ELSE /\ jobLog' = [jobLog EXCEPT ![c] =
                           @ \o (IF said THEN <<>> ELSE <<Line("Scanning", "")>>)
                             \o <<Line("Found", "")>>]
                     /\ reqs' = [reqs EXCEPT
                                   ![i].targets = Deprioritize(found),
                                   ![i].pc = "connect"]
    /\ UNCHANGED <<jobState, jobLast>>
    /\ UNCHANGED <<monVars, stopVars, maskVars, scanVars, rbVars>>
    /\ UNCHANGED <<scoreVars, mergeVars, enumVars, ingestVars>>
    /\ jobSnap' = NoSnap

\* Target resolution in a provisioning job, the scan seen as one step.
RunResolve(i) == \E found \in ScanOutcomes : RunResolveWith(i, found, FALSE)

\* Faulty variant of RunConnect: the goroutine returns right after the
\* loop.
RunConnect_ReturnsAfterLoop(i) ==
    /\ reqs[i].pc = "connect"
    /\ LET c == reqs[i].class IN
          IF reqs[i].idx <= Len(reqs[i].targets)
          THEN /\ appendf(c, Line("Connecting", reqs[i].targets[reqs[i].idx]))
               /\ reqs' = [reqs EXCEPT ![i].pc = "configure"]
          ELSE /\ reqs' = [reqs EXCEPT ![i] = Exited(c, reqs[i].resp)]
               /\ UNCHANGED jobLog
    /\ UNCHANGED <<jobState, jobLast>>
    /\ UNCHANGED <<monVars, stopVars, maskVars, scanVars, rbVars>>
    /\ UNCHANGED <<scoreVars, mergeVars, enumVars, ingestVars>>
    /\ jobSnap' = NoSnap

\* The goroutine, head of the loop over the targets: "Connecting: t", or
\* the end of the loop.
RunConnect(i) ==
    /\ reqs[i].pc = "connect"
    /\ LET c == reqs[i].class IN
          IF reqs[i].idx <= Len(reqs[i].targets)
          THEN /\ appendf(c, Line("Connecting", reqs[i].targets[reqs[i].idx]))
               /\ reqs' = [reqs EXCEPT ![i].pc = "configure"]
          ELSE /\ reqs' = [reqs EXCEPT ![i].pc = "summary"]
               /\ UNCHANGED jobLog
    /\ UNCHANGED <<jobState, jobLast>>
    /\ UNCHANGED <<monVars, stopVars, maskVars, scanVars, rbVars>>
    /\ UNCHANGED <<scoreVars, mergeVars, enumVars, ingestVars>>
    /\ jobSnap' = NoSnap

\* Faulty variant of RunConfigure: Done is set as soon as a target is
\* configured, before the summary line.
RunConfigure_DoneOnSuccess(i) ==
    /\ reqs[i].pc = "configure"
    /\ LET c == reqs[i].class
           t == reqs[i].targets[reqs[i].idx]
       IN  \E res \in ConfigureResults :
              /\ IF res.step \in {"", "upload script", "sudo launch"}
                 THEN appendf(c, Line("REMOTE", t))
                 ELSE UNCHANGED jobLog
              /\ IF res.step = ""
                 THEN /\ reqs' = [reqs EXCEPT ![i].successes = @ + 1,
                                              ![i].idx = @ + 1,
                                              ![i].pc = "connect"]
                      /\ jobState' = [jobState EXCEPT ![c] = "Done"]
                 ELSE /\ reqs' = [reqs EXCEPT ![i].failures = @ + 1,
                                              ![i].lastErr = res,
                                              ![i].pc = "errline"]
                      /\ UNCHANGED jobState
    /\ UNCHANGED jobLast
    /\ UNCHANGED <<monVars, stopVars, maskVars, scanVars, rbVars>>
    /\ UNCHANGED <<scoreVars, mergeVars, enumVars, ingestVars>>
    /\ jobSnap' = NoSnap

\* configurePi / configureStopsPi on the current target: the dial or the
\* rendering fails (no output line), or runScriptDetachedAsRoot is called
\* and its output is appended, whether the upload or the launch under sudo
\* failed or not; every error, whatever its class, is returned as it is.
RunConfigure(i) ==
    /\ reqs[i].pc = "configure"
    /\ LET c == reqs[i].class
           t == reqs[i].targets[reqs[i].idx]
       IN  \E res \in ConfigureResults :
              /\ IF res.step \in {"", "upload script", "sudo launch"}
                 THEN appendf(c, Line("REMOTE", t))
                 ELSE UNCHANGED jobLog
              /\ IF res.step = ""
                 THEN reqs' = [reqs EXCEPT ![i].successes = @ + 1,
                                           ![i].idx = @ + 1,
                                           ![i].pc = "connect"]
                 ELSE reqs' = [reqs EXCEPT ![i].failures = @ + 1,
                                           ![i].lastErr = res,
                                           ![i].pc = "errline"]
    /\ UNCHANGED <<jobState, jobLast>>
    /\ UNCHANGED <<monVars, stopVars, maskVars, scanVars, rbVars>>
    /\ UNCHANGED <<scoreVars, mergeVars, enumVars, ingestVars>>
    /\ jobSnap' = NoSnap

\* Faulty variant of RunErrorLine: the first failure ends the loop.
RunErrorLine_StopsAtFailure(i) ==
    /\ reqs[i].pc = "errline"
    /\ appendf(reqs[i].class,
               Line("Error configuring", reqs[i].targets[reqs[i].idx]))
    /\ reqs' = [reqs EXCEPT ![i].idx = @ + 1, ![i].lastErr = NoErr,
                             ![i].pc = "summary"]
    /\ UNCHANGED <<jobState, jobLast>>
    /\ UNCHANGED <<monVars, stopVars, maskVars, scanVars, rbVars>>
    /\ UNCHANGED <<scoreVars, mergeVars, enumVars, ingestVars>>
    /\ jobSnap' = NoSnap

\* The goroutine: "Error configuring t", then the next target.
RunErrorLine(i) ==
    /\ reqs[i].pc = "errline"
    /\ appendf(reqs[i].class,
               Line("Error configuring", reqs[i].targets[reqs[i].idx]))
    /\ reqs' = [reqs EXCEPT ![i].idx = @ + 1, ![i].lastErr = NoErr,
                             ![i].pc = "connect"]
    /\ UNCHANGED <<jobState, jobLast>>
    /\ UNCHANGED <<monVars, stopVars, maskVars, scanVars, rbVars>>
    /\ UNCHANGED <<scoreVars, mergeVars, enumVars, ingestVars>>
    /\ jobSnap' = NoSnap

\* Faulty variant of RunSummary: one failed target is enough for Error.
RunSummary_ErrorOnAnyFailure(i) ==
    /\ reqs[i].pc \in {"summary", "failures"}
    /\ LET c == reqs[i].class IN
          IF reqs[i].pc = "failures"
          THEN /\ appendf(c, Line("Failures", ""))
               /\ reqs' = [reqs EXCEPT ![i].pc = "setdone"]
          ELSE IF reqs[i].successes > 0 /\ reqs[i].failures = 0
          THEN /\ appendf(c, Line("Configured OK", ""))
               /\ reqs' = [reqs EXCEPT ![i].pc = "setdone"]
          ELSE /\ appendf(c, IF reqs[i].failures > 0
                             THEN Line("All attempts failed", "")
                             ELSE Line("No targets attempted.", ""))
               /\ reqs' = [reqs EXCEPT ![i].pc = "seterror"]
    /\ UNCHANGED <<jobState, jobLast>>
    /\ UNCHANGED <<monVars, stopVars, maskVars, scanVars, rbVars>>
    /\ UNCHANGED <<scoreVars, mergeVars, enumVars, ingestVars>>
    /\ jobSnap' = NoSnap

\* The goroutine after the loop: the summary line, and the failures line
\* that follows "Configured OK" when some target failed.
RunSummary(i) ==
    /\ reqs[i].pc \in {"summary", "failures"}
    /\ LET c == reqs[i].class IN
          IF reqs[i].pc = "failures"
          THEN /\ appendf(c, Line("Failures", ""))
               /\ reqs' = [reqs EXCEPT ![i].pc = "setdone"]
          ELSE IF reqs[i].successes > 0
          THEN /\ appendf(c, Line("Configured OK", ""))
               /\ reqs' = [reqs EXCEPT ![i].pc =
                             IF reqs[i].failures > 0 THEN "failures"
                                                     ELSE "setdone"]
          ELSE /\ appendf(c, IF reqs[i].failures > 0
                             THEN Line("All attempts failed", "")
                             ELSE Line("No targets attempted.", ""))
               /\ reqs' = [reqs EXCEPT ![i].pc = "seterror"]
    /\ UNCHANGED <<jobState, jobLast>>
    /\ UNCHANGED <<monVars, stopVars, maskVars, scanVars, rbVars>>
    /\ UNCHANGED <<scoreVars, mergeVars, enumVars, ingestVars>>
    /\ jobSnap' = NoSnap

\* The goroutine's last statement: setState("Done") or setState("Error").
RunSetState(i) ==
    /\ reqs[i].pc \in {"setdone", "seterror"}
    /\ jobState' = [jobState EXCEPT ![reqs[i].class] =
                      IF reqs[i].pc = "setdone" THEN "Done" ELSE "Error"]
    /\ reqs' = [reqs EXCEPT ![i] = [Exited(reqs[i].class, reqs[i].resp)
                                       EXCEPT !.panicked = reqs[i].panicked]]
    /\ UNCHANGED <<jobLog, jobLast>>
    /\ UNCHANGED <<monVars, stopVars, maskVars, scanVars, rbVars>>
    /\ UNCHANGED <<scoreVars, mergeVars, enumVars, ingestVars>>
    /\ jobSnap' = NoSnap

\* Faulty variant of RunPanic: the recover logs the panic and returns
\* without setState("Error").
RunPanic_StaysRunning(i) ==
    /\ reqs[i].pc \in RunPcs /\ ~reqs[i].panicked
    /\ appendf(reqs[i].class, Line("panic", ""))
    /\ reqs' = [reqs EXCEPT ![i] = [Exited(reqs[i].class, reqs[i].resp)
                                       EXCEPT !.panicked = TRUE]]
    /\ UNCHANGED <<jobState, jobLast>>
    /\ UNCHANGED <<monVars, stopVars, maskVars, scanVars, rbVars>>
    /\ UNCHANGED <<scoreVars, mergeVars, enumVars, ingestVars>>
    /\ jobSnap' = NoSnap

\* A panic in the goroutine and the deferred recover: "panic: ..." is
\* appended, setState("Error") follows.
RunPanic(i) ==
    /\ reqs[i].pc \in RunPcs /\ ~reqs[i].panicked
    /\ appendf(reqs[i].class, Line("panic", ""))
    /\ reqs' = [reqs EXCEPT ![i].pc = "seterror", ![i].panicked = TRUE]
    /\ UNCHANGED <<jobState, jobLast>>
    /\ UNCHANGED <<monVars, stopVars, maskVars, scanVars, rbVars>>
    /\ UNCHANGED <<scoreVars, mergeVars, enumVars, ingestVars>>
    /\ jobSnap' = NoSnap

\* Faulty variant of snapshot: the log is read before the last append, the
\* state after it.
snapshot_LogReadEarlier(c) ==
    [class |-> c, state |-> jobState[c],
     log |-> IF jobLog[c] = <<>> THEN <<>>
             ELSE SubSeq(jobLog[c], 1, Len(jobLog[c]) - 1)]

\* j.snapshot(): the state and the joined log, read under j.mu.
snapshot(c) == [class |-> c, state |-> jobState[c], log |-> jobLog[c]]

\* rpiStatusHandler / rpiStopsStatusHandler: state, log := snapshot(), and
\* the pair is written to the response.
StatusQuery(c) ==
    /\ jobSnap' = snapshot(c)
    /\ UNCHANGED <<jobState, jobLog, jobLast, reqs>>
    /\ UNCHANGED <<monVars, stopVars, maskVars, scanVars, rbVars>>
    /\ UNCHANGED <<scoreVars, mergeVars, enumVars, ingestVars>>

JobIdle ==
    /\ jobState = [c \in JobClasses |-> ""]
    /\ jobLog = [c \in JobClasses |-> <<>>]
    /\ jobLast = [c \in JobClasses |-> NoForm]
    /\ reqs = [i \in ReqIds |-> NoReq]
    /\ jobSnap = NoSnap

JobNext ==
    \/ \E i \in ReqIds, c \in JobClasses, raw \in RawForms : RunPost(i, c, raw)
    \/ \E i \in ReqIds : RunAdmit(i)
    \/ \E i \in ReqIds : RunResolve(i)
    \/ \E i \in ReqIds : RunConnect(i)
    \/ \E i \in ReqIds : RunConfigure(i)
    \/ \E i \in ReqIds : RunErrorLine(i)
    \/ \E i \in ReqIds : RunSummary(i)
    \/ \E i \in ReqIds : RunSetState(i)
    \/ \E i \in ReqIds : RunPanic(i)

(***************************************************************************)
(* Subnet scan: scanSubnetForSSH, called by the goroutine of a run whose   *)
(* form names no host.                                                     *)
(***************************************************************************)
\* sem := make(chan struct{}, 128)
semCap == 128

\* ip.String() of the address 10.0.100.o
IpText(o) == "10.0.100." \o ToString(o)

\* The loop from ipNet.IP.Mask(ipNet.Mask) while ipNet.Contains(ip): every
\* address of the network, in increasing order.
NetworkAddrs(cidr) ==
    LET size == 2 ^ cidr.hostBits
        base == cidr.ip - (cidr.ip % size)
    IN  [k \in 1..size |-> base + k - 1]

\* Faulty variant of HostAddrs: only the first address is cut off.
HostAddrs_KeepsBroadcast(all) ==
    IF Len(all) > 2 THEN SubSeq(all, 2, Len(all)) ELSE <<>>

\* ips = ips[1 : len(ips)-1] when there are more than two addresses, else
\* no address at all.
HostAddrs(all) ==
    IF Len(all) > 2 THEN SubSeq(all, 2, Len(all) - 1) ELSE <<>>

\* The subnets of the model, with the hosts that may listen on port 22.
ScanInputs ==
    {[cidr |-> [ip |-> 5, hostBits |-> 3], open |-> o] : o \in SUBSET {1, 2, 3}}
        \cup {[cidr |-> [ip |-> 253, hostBits |-> 2], open |-> o] :
                  o \in SUBSET {253, 254}}
        \cup {[cidr |-> [ip |-> 0, hostBits |-> 2], open |-> o] :
                  o \in SUBSET {0, 1, 2, 3}}
        \cup {[cidr |-> [ip |-> 8, hostBits |-> 1], open |-> {8, 9}],
              [cidr |-> [ip |-> 7, hostBits |-> 0], open |-> {7}]}

\* The goroutine of a run that names no host logs "Scanning ..." and
\* enters scanSubnetForSSH, which lists the addresses to probe.
ScanStart(i) ==
    /\ scanPc = "parse"
    /\ reqs[i].pc = "resolve"
    /\ reqs[i].form.Host = ""
    /\ appendf(reqs[i].class, Line("Scanning", ""))
    /\ scanIps' = HostAddrs(NetworkAddrs(scanCidr))
    /\ scanPc' = "launch"
    /\ UNCHANGED <<scanCidr, sshOpen, launched, inFlight, scanOut, received,
                   scanFound, dials>>
    /\ UNCHANGED <<jobState, jobLast, reqs>>
    /\ UNCHANGED <<monVars, stopVars, maskVars, rbVars>>
    /\ UNCHANGED <<scoreVars, mergeVars, enumVars, ingestVars>>
    /\ jobSnap' = NoSnap

\* The launch loop: a slot of sem is taken and the probe of the next
\* address is started; after the last address the collect loop begins.
ScanLaunch ==
    /\ scanPc = "launch"
    /\ IF launched < Len(scanIps)
       THEN /\ Cardinality(inFlight) < semCap
            /\ launched' = launched + 1
            /\ inFlight' = inFlight \cup {scanIps[launched + 1]}
            /\ UNCHANGED scanPc
       ELSE /\ scanPc' = "collect"
            /\ UNCHANGED <<launched, inFlight>>
    /\ UNCHANGED <<scanCidr, sshOpen, scanIps, scanOut, received, scanFound,
                   dials>>
    /\ UNCHANGED <<monVars, jobVars, stopVars, maskVars, rbVars>>
    /\ UNCHANGED <<scoreVars, mergeVars, enumVars, ingestVars>>

\* One probe goroutine: the dial, the result sent on out, the slot given
\* back.
ScanProbe(o) ==
    /\ o \in inFlight
    /\ dials' = [dials EXCEPT ![o] = @ + 1]
    /\ scanOut' = Append(scanOut,
                         IF o \in sshOpen
                         THEN [ip |-> IpText(o), ok |-> TRUE]
                         ELSE [ip |-> "", ok |-> FALSE])
    /\ inFlight' = inFlight \ {o}
    /\ UNCHANGED <<scanCidr, sshOpen, scanIps, launched, received, scanFound,
                   scanPc>>
    /\ UNCHANGED <<monVars, jobVars, stopVars, maskVars, rbVars>>
    /\ UNCHANGED <<scoreVars, mergeVars, enumVars, ingestVars>>

\* The collect loop: one result is received for every address probed, the
\* addresses that answered are appended to found; then the scan returns.
ScanCollect ==
    /\ scanPc = "collect"
    /\ IF received < Len(scanIps)
       THEN /\ scanOut # <<>>
            /\ received' = received + 1
            /\ scanOut' = Tail(scanOut)
            /\ scanFound' = IF Head(scanOut).ok
                             THEN Append(scanFound, Head(scanOut).ip)
                             ELSE scanFound
            /\ UNCHANGED scanPc
       ELSE /\ scanPc' = "done"
            /\ UNCHANGED <<received, scanOut, scanFound>>
    /\ UNCHANGED <<scanCidr, sshOpen, scanIps, launched, inFlight, dials>>
    /\ UNCHANGED <<monVars, jobVars, stopVars, maskVars, rbVars>>
    /\ UNCHANGED <<scoreVars, mergeVars, enumVars, ingestVars>>

\* The goroutine of the run goes on with what the scan returned.
ScanResolve(i) ==
    /\ scanPc = "done"
    /\ RunResolveWith(i, scanFound, TRUE)

\* No scan is running.
ScanIdle ==
    /\ scanCidr = [ip |-> 0, hostBits |-> 0]
    /\ sshOpen = {}
    /\ scanIps = <<>>
    /\ launched = 0
    /\ inFlight = {}
    /\ scanOut = <<>>
    /\ received = 0
    /\ scanFound = <<>>
    /\ dials = <<>>
    /\ scanPc = "idle"

\* A run whose form names no host has been accepted and is about to
\* resolve its targets.
ScanInit ==
    /\ \E in \in ScanInputs :
          /\ scanCidr = in.cidr
          /\ sshOpen = in.open
          /\ dials = [o \in {NetworkAddrs(in.cidr)[k] :
                                 k \in 1..Len(NetworkAddrs(in.cidr))} |-> 0]
    /\ scanIps = <<>>
    /\ launched = 0
    /\ inFlight = {}
    /\ scanOut = <<>>
    /\ received = 0
    /\ scanFound = <<>>
    /\ scanPc = "parse"
    /\ \E cl \in JobClasses :
          /\ jobState = [c \in JobClasses |-> IF c = cl THEN "Running" ELSE ""]
          /\ jobLog = [c \in JobClasses |->
                          IF c = cl THEN <<Line("Starting...", "")>> ELSE <<>>]
          /\ reqs = [i \in ReqIds |->
                        IF i = 1
                        THEN [NoReq EXCEPT !.class = cl, !.pc = "resolve",
                                           !.resp = 303]
                        ELSE NoReq]
    /\ jobLast = [c \in JobClasses |-> NoForm]
    /\ jobSnap = NoSnap

ScanNext ==
    \/ \E i \in ReqIds : ScanStart(i)
    \/ ScanLaunch
    \/ \E o \in inFlight : ScanProbe(o)
    \/ ScanCollect
    \/ \E i \in ReqIds : ScanResolve(i)
    \/ \E i \in ReqIds : RunConnect(i)
    \/ \E i \in ReqIds : RunConfigure(i)
    \/ \E i \in ReqIds : RunErrorLine(i)
    \/ \E i \in ReqIds : RunSummary(i)
    \/ \E i \in ReqIds : RunSetState(i)
    \/ \E i \in ReqIds : RunPanic(i)

(***************************************************************************)
(* Station-stop ingestion.                                                 *)
(***************************************************************************)
StationIds == {"R1", "R2", "R3", "B1", "B2", "B3"}

\* Characters of a secret; " " is white space.
SecretChars == {"a", "b", " "}

\* The secrets of the model: every text of at most MaxSecretLen characters.
Secrets == UNION {[1..n -> SecretChars] : n \in 0..MaxSecretLen}

\* Station ids a request path may carry.
PathStationIds == {"r1", "R1", "b3", "x9"}

\* strings.TrimSpace
RECURSIVE TrimLeft(_)
TrimLeft(str) ==
    IF str # <<>> /\ Head(str) = " " THEN TrimLeft(Tail(str)) ELSE str

RECURSIVE TrimRight(_)
TrimRight(str) ==
    IF str # <<>> /\ str[Len(str)] = " "
    THEN TrimRight(SubSeq(str, 1, Len(str) - 1)) ELSE str

\* Faulty variant of TrimSpace: only leading white space is removed.
TrimSpace_LeftOnly(str) == TrimLeft(str)

TrimSpace(str) == TrimRight(TrimLeft(str))

\* The zero value of a station's remote-stop fields.
NoStation ==
    [RemoteEStop |-> FALSE, RemoteAStop |-> FALSE, RemoteLastUpdate |-> 0]

\* Arena.UpdateRemoteStops: an unknown station is an error; a known one
\* takes the reported flags and the current time.
UpdateRemoteStopsFails(station) == station \notin StationIds

UpdateRemoteStops(station, eStop, aStop) ==
    [stations EXCEPT ![station] =
        [RemoteEStop |-> eStop, RemoteAStop |-> aStop,
         RemoteLastUpdate |-> clock]]

\* The staleness threshold, seconds: a station is online while its last
\* report is more recent than this.
StaleAfter == 2

\* Arena.StationRpiStatuses: the snapshot of every station, with Online
\* derived from the age of the last report (0 is the zero time: never).
StationRpiStatuses ==
    [st \in StationIds |->
        [Online |-> /\ stations[st].RemoteLastUpdate # 0
                    /\ clock - stations[st].RemoteLastUpdate < StaleAfter,
         RemoteEStop |-> stations[st].RemoteEStop,
         RemoteAStop |-> stations[st].RemoteAStop,
         LastUpdate |-> stations[st].RemoteLastUpdate]]

\* field.StationRpiStatus{}
NoStatus ==
    [Online |-> FALSE, RemoteEStop |-> FALSE, RemoteAStop |-> FALSE,
     LastUpdate |-> 0]

\* order := []string{"R1", "R2", "R3", "B1", "B2", "B3"}
order == <<"R1", "R2", "R3", "B1", "B2", "B3">>

\* One row of the view; LastUpdate is "Never" or the formatted time.
ViewRow(station, status) ==
    [Station |-> station,
     Online |-> status.Online,
     RemoteEStop |-> status.RemoteEStop,
     RemoteAStop |-> status.RemoteAStop,
     LastUpdate |-> IF status.LastUpdate = 0 THEN "Never"
                    ELSE ToString(status.LastUpdate)]

\* Faulty variant of buildStationRpiStatusView: a station missing from the
\* map gets no row.
RECURSIVE ViewFrom_SkipsMissing(_, _)
ViewFrom_SkipsMissing(statusMap, k) ==
    IF k > Len(order) THEN <<>>
    ELSE IF order[k] \in DOMAIN statusMap
         THEN <<ViewRow(order[k], statusMap[order[k]])>>
                  \o ViewFrom_SkipsMissing(statusMap, k + 1)
         ELSE ViewFrom_SkipsMissing(statusMap, k + 1)

buildStationRpiStatusView_SkipsMissing(statusMap) ==
    ViewFrom_SkipsMissing(statusMap, 1)

\* Faulty variant of buildStationRpiStatusView: a station counts as online
\* once it has reported.
buildStationRpiStatusView_OnlineOnceSeen(statusMap) ==
    [k \in 1..Len(order) |->
        LET status == IF order[k] \in DOMAIN statusMap
                      THEN statusMap[order[k]] ELSE NoStatus
        IN  [ViewRow(order[k], status) EXCEPT
                !.Online = status.LastUpdate # 0]]

\* buildStationRpiStatusView: one row per station of order, in that order;
\* a station missing from the map shows the zero status.
buildStationRpiStatusView(statusMap) ==
    [k \in 1..Len(order) |->
        LET status == IF order[k] \in DOMAIN statusMap
                      THEN statusMap[order[k]] ELSE NoStatus
        IN  ViewRow(order[k], status)]

\* Faulty variant of SecretStatus: an empty secret is let through.
SecretStatus_EmptyPasses(configured, sent) ==
    LET secret == TrimSpace(sent) IN
    IF configured # <<>> /\ secret # <<>> /\ secret # configured THEN 403 ELSE 0

\* The secret test of stationStopsApiHandler: 403, or 0 to go on.
SecretStatus(configured, sent) ==
    LET secret == TrimSpace(sent) IN
    IF configured # <<>> /\ (secret = <<>> \/ secret # configured)
    THEN 403 ELSE 0

\* Faulty variant of EarlyStatus: the body is decoded before the feature
\* switch is looked at.
EarlyStatus_BodyFirst(enabled, configured, wellFormed, sent) ==
    IF ~wellFormed THEN 400
    ELSE IF ~enabled THEN 503
    ELSE SecretStatus(configured, sent)

\* The HTTP status stationStopsApiHandler answers before it looks at the
\* station: 503 (disabled), 400 (body not decoded), 403, or 0 to go on.
EarlyStatus(enabled, configured, wellFormed, sent) ==
    IF ~enabled THEN 503
    ELSE IF ~wellFormed THEN 400
    ELSE SecretStatus(configured, sent)

\* Faulty variant of StationStopArrive: the stops of the body are handed to
\* UpdateRemoteStops as soon as the body is decoded, before the secret is
\* tested.
StationStopArrive_UpdatesBeforeSecret(wellFormed, sent) ==
    /\ stopPc = "idle"
    /\ reports < MaxReports
    /\ reports' = reports + 1
    /\ LET status == EarlyStatus(UseStationRpiStops, StationRpiSecret,
                                 wellFormed, sent)
       IN  /\ stopPc' = IF status = 0 THEN "update" ELSE "idle"
           /\ lastReport' = [wellFormed |-> wellFormed, secret |-> sent,
                             pathId |-> "", eStop |-> FALSE, aStop |-> FALSE,
                             status |-> status]
    /\ IF UseStationRpiStops /\ wellFormed
       THEN stations' = UpdateRemoteStops("R1", TRUE, TRUE)
       ELSE UNCHANGED stations
    /\ UNCHANGED <<UseStationRpiStops, StationRpiSecret, clock, view>>
    /\ UNCHANGED <<monVars, jobVars, maskVars, scanVars, rbVars>>
    /\ UNCHANGED <<scoreVars, mergeVars, enumVars, ingestVars>>

\* Faulty variant of StationStopArrive: the station id of the path is
\* validated before the secret is tested.
StationStopArrive_StationBeforeSecret(wellFormed, sent) ==
    /\ stopPc = "idle"
    /\ reports < MaxReports
    /\ reports' = reports + 1
    /\ \E pathId \in PathStationIds :
          LET early == EarlyStatus(UseStationRpiStops, StationRpiSecret,
                                   wellFormed, sent)
              status == IF /\ UseStationRpiStops
                           /\ wellFormed
                           /\ UpdateRemoteStopsFails(ToUpper(pathId))
                        THEN 400 ELSE early
          IN  /\ stopPc' = IF status = 0 THEN "update" ELSE "idle"
              /\ lastReport' = [wellFormed |-> wellFormed, secret |-> sent,
                                pathId |-> "", eStop |-> FALSE,
                                aStop |-> FALSE, status |-> status]
    /\ UNCHANGED <<UseStationRpiStops, StationRpiSecret, stations, clock, view>>
    /\ UNCHANGED <<monVars, jobVars, maskVars, scanVars, rbVars>>
    /\ UNCHANGED <<scoreVars, mergeVars, enumVars, ingestVars>>

\* stationStopsApiHandler, first half: the feature switch, the body and the
\* secret.
StationStopArrive(wellFormed, sent) ==
    /\ stopPc = "idle"
    /\ reports < MaxReports
    /\ reports' = reports + 1
    /\ LET status == EarlyStatus(UseStationRpiStops, StationRpiSecret,
                                 wellFormed, sent)
       IN  /\ stopPc' = IF status = 0 THEN "update" ELSE "idle"
           /\ lastReport' = [wellFormed |-> wellFormed, secret |-> sent,
                             pathId |-> "", eStop |-> FALSE, aStop |-> FALSE,
                             status |-> status]
    /\ UNCHANGED <<UseStationRpiStops, StationRpiSecret, stations, clock, view>>
    /\ UNCHANGED <<monVars, jobVars, maskVars, scanVars, rbVars>>
    /\ UNCHANGED <<scoreVars, mergeVars, enumVars, ingestVars>>

\* Faulty variant of StationStopUpdate: the two stop flags are handed to
\* UpdateRemoteStops in the wrong order.
StationStopUpdate_SwapsFlags(pathId, eStop, aStop) ==
    /\ stopPc = "update"
    /\ LET station == ToUpper(pathId) IN
          IF UpdateRemoteStopsFails(station)
          THEN /\ lastReport' = [lastReport EXCEPT !.pathId = pathId,
                                                   !.eStop = eStop,
                                                   !.aStop = aStop,
                                                   !.status = 400]
               /\ UNCHANGED stations
          ELSE /\ stations' = UpdateRemoteStops(station, aStop, eStop)
               /\ lastReport' = [lastReport EXCEPT !.pathId = pathId,
                                                   !.eStop = eStop,
                                                   !.aStop = aStop,
                                                   !.status = 200]
    /\ stopPc' = "idle"
    /\ UNCHANGED <<UseStationRpiStops, StationRpiSecret, clock, reports, view>>
    /\ UNCHANGED <<monVars, jobVars, maskVars, scanVars, rbVars>>
    /\ UNCHANGED <<scoreVars, mergeVars, enumVars, ingestVars>>

\* stationStopsApiHandler, second half: the station id of the path is put
\* in upper case and UpdateRemoteStops is called; 400 when it fails, the
\* success answer otherwise.
StationStopUpdate(pathId, eStop, aStop) ==
    /\ stopPc = "update"
    /\ LET station == ToUpper(pathId) IN
          IF UpdateRemoteStopsFails(station)
          THEN /\ lastReport' = [lastReport EXCEPT !.pathId = pathId,
                                                   !.eStop = eStop,
                                                   !.aStop = aStop,
                                                   !.status = 400]
               /\ UNCHANGED stations
          ELSE /\ stations' = UpdateRemoteStops(station, eStop, aStop)
               /\ lastReport' = [lastReport EXCEPT !.pathId = pathId,
                                                   !.eStop = eStop,
                                                   !.aStop = aStop,
                                                   !.status = 200]
    /\ stopPc' = "idle"
    /\ UNCHANGED <<UseStationRpiStops, StationRpiSecret, clock, reports, view>>
    /\ UNCHANGED <<monVars, jobVars, maskVars, scanVars, rbVars>>
    /\ UNCHANGED <<scoreVars, mergeVars, enumVars, ingestVars>>

\* rpiStopsStatusHandler: the status query builds the station view from a
\* snapshot of the stations.
StopsStatus ==
    /\ view' = buildStationRpiStatusView(StationRpiStatuses)
    /\ UNCHANGED <<UseStationRpiStops, StationRpiSecret, stations, clock,
                   reports, lastReport, stopPc>>
    /\ UNCHANGED <<monVars, jobVars, maskVars, scanVars, rbVars>>
    /\ UNCHANGED <<scoreVars, mergeVars, enumVars, ingestVars>>

\* Time passes in the arena.
ClockTick ==
    /\ clock < MaxClock
    /\ clock' = clock + 1
    /\ UNCHANGED <<UseStationRpiStops, StationRpiSecret, stations, reports,
                   lastReport, stopPc, view>>
    /\ UNCHANGED <<monVars, jobVars, maskVars, scanVars, rbVars>>
    /\ UNCHANGED <<scoreVars, mergeVars, enumVars, ingestVars>>

NoReport ==
    [wellFormed |-> FALSE, secret |-> <<>>, pathId |-> "", eStop |-> FALSE,
     aStop |-> FALSE, status |-> 0]

StopsIdle ==
    /\ UseStationRpiStops = FALSE
    /\ StationRpiSecret = <<>>
    /\ stations = [st \in StationIds |-> NoStation]
    /\ clock = 1
    /\ reports = 0
    /\ lastReport = NoReport
    /\ stopPc = "idle"
    /\ view = <<>>

StopsInit ==
    /\ UseStationRpiStops \in BOOLEAN
    /\ StationRpiSecret \in Secrets
    /\ stations = [st \in StationIds |-> NoStation]
    /\ clock = 1
    /\ reports = 0
    /\ lastReport = NoReport
    /\ stopPc = "idle"
    /\ view = <<>>

StopsNext ==
    \/ \E wellFormed \in BOOLEAN, sent \in Secrets :
          StationStopArrive(wellFormed, sent)
    \/ \E pathId \in PathStationIds, eStop \in BOOLEAN, aStop \in BOOLEAN :
          StationStopUpdate(pathId, eStop, aStop)
    \/ StopsStatus
    \/ ClockTick

(***************************************************************************)
(* Challenge authentication of the Netgear login: mergeStrings.            *)
(***************************************************************************)
\* Longest password and longest nonce, in characters.
MaxLen == 3

\* The characters (runes) of passwords and nonces.
MergeChars == {"p", "7"}

\* The strings of at most MaxLen characters.
MergeTexts == UNION {[1..n -> MergeChars] : n \in 0..MaxLen}

\* The loop of mergeStrings: while a or b has a character left, one pass
\* writes the next character of a, if any, then the next of b, if any.
RECURSIVE MergeLoop(_, _)
MergeLoop(a, b) ==
    IF a = <<>> /\ b = <<>> THEN <<>>
    ELSE (IF a # <<>> THEN <<Head(a)>> ELSE <<>>)
         \o (IF b # <<>> THEN <<Head(b)>> ELSE <<>>)
         \o MergeLoop(IF a # <<>> THEN Tail(a) ELSE <<>>,
                      IF b # <<>> THEN Tail(b) ELSE <<>>)

\* Faulty variant of mergeStrings: the nonce is appended to the password.
mergeStrings_Concatenates(a, b) == a \o b

\* mergeStrings
mergeStrings(a, b) == MergeLoop(a, b)

\* rebootWithLogin: mergeStrings(s.plainPassword, randStr)
MergeCall ==
    /\ mergePc = "pending"
    /\ mergeOut' = mergeStrings(mergeA, mergeB)
    /\ mergePc' = "merged"
    /\ UNCHANGED <<mergeA, mergeB>>
    /\ UNCHANGED <<monVars, jobVars, stopVars, maskVars, scanVars, rbVars>>
    /\ UNCHANGED <<scoreVars, enumVars, ingestVars>>

MergeIdle ==
    /\ mergeA = <<>>
    /\ mergeB = <<>>
    /\ mergeOut = <<>>
    /\ mergePc = "merged"

\* The password is configured, the nonce comes from the login page.
MergeInit ==
    /\ mergeA \in MergeTexts
    /\ mergeB \in MergeTexts
    /\ mergeOut = <<>>
    /\ mergePc = "pending"

MergeNext == MergeCall

(***************************************************************************)
(* Score summary from the configured game: summarizeFromConfig and the     *)
(* scoring-panel commands that change the score.                           *)
(***************************************************************************)
\* Largest value of a counter widget, most fouls of the opponent, and most
\* summaries taken of one unchanged score.
MaxCount == 2
MaxFouls == 2
MaxCalls == 3

\* statePoints of parsePoints when the points name no state: an empty map.
NoPoints == [k \in {} |-> 0]

\* ActiveGameConfig.Panels[..].Widgets after ParseGameConfig: PointValue
\* and StatePoints as parsePoints leaves them.  The last widget repeats
\* the id of the first.
Widgets == <<
    [Id |-> "c1", Type |-> "counter", ScoringId |-> "", PointValue |-> 2,
     StatePoints |-> NoPoints],
    [Id |-> "c2", Type |-> "counter", ScoringId |-> "s1", PointValue |-> 1,
     StatePoints |-> NoPoints],
    [Id |-> "t1", Type |-> "toggle", ScoringId |-> "s1", PointValue |-> 1,
     StatePoints |-> NoPoints],
    [Id |-> "t2", Type |-> "toggle", ScoringId |-> "", PointValue |-> 3,
     StatePoints |-> NoPoints],
    [Id |-> "m1", Type |-> "multistate", ScoringId |-> "s2",
     PointValue |-> 0,
     StatePoints |-> [low |-> 1, high |-> 4]],
    [Id |-> "c1", Type |-> "toggle", ScoringId |-> "", PointValue |-> 7,
     StatePoints |-> NoPoints] >>

\* ActiveGameConfig.Scoring
Scoring == <<[Id |-> "s1", PointValue |-> 5], [Id |-> "s2", PointValue |-> 2]>>

\* The widget ids a panel sends; "zz" names no widget.
WidgetIds == {"c1", "c2", "t1", "t2", "m1", "zz"}

\* The Delta and the State of a widget command.
Deltas == {-1, 0}
States == {"", "high", "odd"}

\* The values Foul.PointValue may give a minor and a major foul.
FoulValues == [minor : {2}, major : {5}]

NoWidget == [Id |-> "", Type |-> "", ScoringId |-> "", PointValue |-> 0,
             StatePoints |-> NoPoints]

\* GameConfigDefinition.WidgetById: the first widget with the id, or nil.
WidgetById(id) ==
    IF \E i \in DOMAIN Widgets : Widgets[i].Id = id
    THEN Widgets[CHOOSE i \in DOMAIN Widgets :
                    /\ Widgets[i].Id = id
                    /\ \A j \in 1..(i - 1) : Widgets[j].Id # id]
    ELSE NoWidget

\* A Go map: nil or not, and its entries.
NilMap == [nil |-> TRUE, m |-> [k \in {} |-> 0]]

\* map[k] = v, on a map that is not nil.
MapSet(mp, k, v) ==
    [nil |-> FALSE,
     m |-> [j \in DOMAIN mp.m \cup {k} |-> IF j = k THEN v ELSE mp.m[j]]]

\* delete(map, k)
MapDelete(mp, k) ==
    [nil |-> mp.nil, m |-> [j \in DOMAIN mp.m \ {k} |-> mp.m[j]]]

\* map[k] of a map of ints: the zero value when k is missing.
MapInt(mp, k) == IF k \in DOMAIN mp.m THEN mp.m[k] ELSE 0

\* The sum of the values of a map or of a slice of ints.
RECURSIVE SumFn(_)
SumFn(f) ==
    IF DOMAIN f = {} THEN 0
    ELSE LET k == CHOOSE j \in DOMAIN f : TRUE
         IN  f[k] + SumFn([j \in DOMAIN f \ {k} |-> f[j]])

\* Score{}: the zero value; every map is nil.
NewScore ==
    [PlayoffDq |-> FALSE, GenericCounters |-> NilMap,
     GenericToggles |-> NilMap, GenericStates |-> NilMap,
     GenericScoring |-> NilMap]

\* new(ScoreSummary)
NewScoreSummary ==
    [MatchPoints |-> 0, FoulPoints |-> 0, NumOpponentMajorFouls |-> 0,
     Score |-> 0]

\* Foul.PointValue
PointValue(foul) ==
    IF foul.IsMajor THEN foulPoints.major ELSE foulPoints.minor

\* The three loops over the generic maps: what they add to MatchPoints.
WidgetPoints(sc) ==
    SumFn([k \in DOMAIN sc.GenericCounters.m |->
              LET widget == WidgetById(k)
              IN  IF widget # NoWidget /\ widget.ScoringId = ""
                  THEN sc.GenericCounters.m[k] * widget.PointValue ELSE 0])
    + SumFn([k \in DOMAIN sc.GenericToggles.m |->
              LET widget == WidgetById(k)
              IN  IF /\ sc.GenericToggles.m[k]
                     /\ widget # NoWidget /\ widget.ScoringId = ""
                  THEN widget.PointValue ELSE 0])
    + SumFn([k \in DOMAIN sc.GenericStates.m |->
              LET widget == WidgetById(k)
              IN  IF /\ widget # NoWidget
                     /\ sc.GenericStates.m[k] \in DOMAIN widget.StatePoints
                  THEN widget.StatePoints[sc.GenericStates.m[k]]
                  ELSE 0])

\* The three loops over the generic maps: what they add to the count of
\* the scoring element id.
WidgetCount(sc, id) ==
    SumFn([k \in DOMAIN sc.GenericCounters.m |->
              LET widget == WidgetById(k)
              IN  IF widget # NoWidget /\ widget.ScoringId = id
                  THEN sc.GenericCounters.m[k] ELSE 0])
    + SumFn([k \in DOMAIN sc.GenericToggles.m |->
              LET widget == WidgetById(k)
              IN  IF /\ sc.GenericToggles.m[k]
                     /\ widget # NoWidget /\ widget.ScoringId = id
                  THEN 1 ELSE 0])
    + SumFn([k \in DOMAIN sc.GenericStates.m |->
              LET widget == WidgetById(k)
              IN  IF /\ widget # NoWidget /\ widget.ScoringId = id
                     /\ sc.GenericStates.m[k] \in DOMAIN widget.StatePoints
                  THEN 1 ELSE 0])

\* The summary of the fields computed from the counts and the fouls.
SummaryOf(sc, counts, fouls) ==
    LET matchPoints ==
            WidgetPoints(sc)
            + SumFn([i \in DOMAIN Scoring |->
                        MapInt(counts, Scoring[i].Id) * Scoring[i].PointValue])
        fouled == SumFn([i \in DOMAIN fouls |-> PointValue(fouls[i])])
    IN  [MatchPoints |-> matchPoints,
         FoulPoints |-> fouled,
         NumOpponentMajorFouls |->
             Cardinality({i \in DOMAIN fouls : fouls[i].IsMajor}),
         Score |-> matchPoints + fouled]

\* The ids of the scoring elements that some widget names.
ScoringIds == {Widgets[i].ScoringId : i \in DOMAIN Widgets} \ {""}

\* The score after each of its three maps was made if it was nil.
WithMaps(sc) ==
    [sc EXCEPT !.GenericCounters = [nil |-> FALSE, m |-> @.m],
               !.GenericToggles = [nil |-> FALSE, m |-> @.m],
               !.GenericStates = [nil |-> FALSE, m |-> @.m]]

\* Earlier version of summarizeFromConfig: the counts of the scoring
\* elements are added to score.GenericScoring, which is kept.
summarizeFromConfig_Accumulates(sc, fouls) ==
    IF sc.PlayoffDq THEN [summary |-> NewScoreSummary, score |-> sc]
    ELSE LET counts ==
                 [nil |-> FALSE,
                  m |-> [id \in DOMAIN sc.GenericScoring.m \cup
                                {i \in ScoringIds : WidgetCount(sc, i) > 0} |->
                            MapInt(sc.GenericScoring, id)
                            + WidgetCount(sc, id)]]
         IN  [summary |-> SummaryOf(sc, counts, fouls),
              score |-> [WithMaps(sc) EXCEPT !.GenericScoring = counts]]

\* Score.summarizeFromConfig: the summary returned and the score as the
\* call leaves it.  scoringCounts is local to the call.
summarizeFromConfig(sc, fouls) ==
    IF sc.PlayoffDq THEN [summary |-> NewScoreSummary, score |-> sc]
    ELSE LET scoringCounts ==
                 [nil |-> FALSE,
                  m |-> [id \in {i \in ScoringIds : WidgetCount(sc, i) > 0} |->
                            WidgetCount(sc, id)]]
         IN  [summary |-> SummaryOf(sc, scoringCounts, fouls),
              score |-> WithMaps(sc)]

\* A summary is taken of the score and the fouls of the opponent.
Summarize ==
    /\ Len(summaries) < MaxCalls
    /\ LET r == summarizeFromConfig(score, oppFouls)
       IN  /\ summaries' = Append(summaries, r.summary)
           /\ score' = r.score
    /\ UNCHANGED <<oppFouls, foulPoints>>
    /\ UNCHANGED <<monVars, jobVars, stopVars, maskVars, scanVars, rbVars>>
    /\ UNCHANGED <<mergeVars, enumVars, ingestVars>>

\* The scoring panel, command "widget": the maps are made, then the widget
\* is looked up and its counter, toggle or state changes.
ScoreWidget(widgetId, delta, state) ==
    /\ LET sc == WithMaps(score)
           widget == WidgetById(widgetId)
           old == MapInt(sc.GenericCounters, widget.Id)
           d == IF delta = 0 THEN 1 ELSE delta
           new == IF old + d < 0 THEN 0 ELSE old + d
       IN  /\ widget.Type = "counter" => new <= MaxCount
           /\ score' =
                CASE widget = NoWidget -> sc
                  [] widget.Type = "counter" ->
                       [sc EXCEPT !.GenericCounters = MapSet(@, widget.Id, new)]
                  [] widget.Type = "toggle" ->
                       [sc EXCEPT !.GenericToggles =
                           MapSet(@, widget.Id,
                                  ~(/\ widget.Id \in DOMAIN @.m
                                    /\ @.m[widget.Id]))]
                  [] widget.Type = "multistate" ->
                       [sc EXCEPT !.GenericStates =
                           IF state # "" THEN MapSet(@, widget.Id, state)
                           ELSE MapDelete(@, widget.Id)]
                  [] OTHER -> sc
    /\ summaries' = <<>>
    /\ UNCHANGED <<oppFouls, foulPoints>>
    /\ UNCHANGED <<monVars, jobVars, stopVars, maskVars, scanVars, rbVars>>
    /\ UNCHANGED <<mergeVars, enumVars, ingestVars>>

\* The scoring panel, command "addFoul" against this alliance's opponent:
\* the foul is appended to the opponent's list.  The panel makes the maps
\* of its own alliance's score first, which is this score when mine.
ScoreAddFoul(isMajor, mine) ==
    /\ Len(oppFouls) < MaxFouls
    /\ oppFouls' = Append(oppFouls, [IsMajor |-> isMajor])
    /\ score' = IF mine THEN WithMaps(score) ELSE score
    /\ summaries' = <<>>
    /\ UNCHANGED foulPoints
    /\ UNCHANGED <<monVars, jobVars, stopVars, maskVars, scanVars, rbVars>>
    /\ UNCHANGED <<mergeVars, enumVars, ingestVars>>

ScoreIdle ==
    /\ score = 0
    /\ oppFouls = <<>>
    /\ foulPoints = 0
    /\ summaries = <<>>

\* A new score, disqualified in the playoffs or not; no fouls yet.
ScoreInit ==
    /\ score \in {[NewScore EXCEPT !.PlayoffDq = dq] : dq \in BOOLEAN}
    /\ oppFouls = <<>>
    /\ foulPoints \in FoulValues
    /\ summaries = <<>>

ScoreNext ==
    \/ Summarize
    \/ \E widgetId \in WidgetIds, delta \in Deltas, state \in States :
          ScoreWidget(widgetId, delta, state)
    \/ \E isMajor \in BOOLEAN, mine \in BOOLEAN : ScoreAddFoul(isMajor, mine)

(***************************************************************************)
(* Address enumeration of scanSubnetForSSH: the loop from the network      *)
(* address while the subnet contains ip, stepping with incIP.  Addresses   *)
(* are scaled down: IpLen bytes of ByteBits bits each.                     *)
(***************************************************************************)
IpLen == 2
ByteBits == 3
ByteSize == 2 ^ ByteBits
AddrBits == IpLen * ByteBits

\* net.IP values of one family
Ips == [1..IpLen -> 0..(ByteSize - 1)]

\* len(ips) is counted up to the number of addresses there are.
MaxIps == 2 ^ AddrBits

\* IP.Mask with the mask of the given prefix length: each byte of ip and-ed
\* with the byte of the mask, which has onesOfByte leading one bits.
MaskIP(ip, ones) ==
    [j \in 1..IpLen |->
        LET onesOfByte == IF ones >= j * ByteBits THEN ByteBits
                          ELSE IF ones <= (j - 1) * ByteBits THEN 0
                          ELSE ones - (j - 1) * ByteBits
        IN  ip[j] - LowBits(ip[j], ByteBits - onesOfByte)]

\* IPNet.Contains
Contains(ipNet, ip) == MaskIP(ip, ipNet.ones) = MaskIP(ipNet.IP, ipNet.ones)

\* The loop of incIP from byte j down: the byte is incremented, modulo its
\* size, and the loop goes on to the byte before only if it became zero.
RECURSIVE IncFrom(_, _)
IncFrom(ip, j) ==
    IF j = 0 THEN ip
    ELSE LET res == [ip EXCEPT ![j] = (ip[j] + 1) % ByteSize]
         IN  IF res[j] > 0 THEN res ELSE IncFrom(res, j - 1)

\* incIP
incIP(ip) == IncFrom(ip, IpLen)

\* One pass of the loop: ipNet.Contains(ip) holds, a copy of ip is
\* appended to ips, and ip = incIP(ip).
EnumStep ==
    /\ enumPc = "loop"
    /\ Contains(enumNet, enumIp)
    /\ enumLen' = IF enumLen < MaxIps THEN enumLen + 1 ELSE MaxIps
    /\ enumIp' = incIP(enumIp)
    /\ UNCHANGED <<enumNet, enumPc>>
    /\ UNCHANGED <<monVars, jobVars, stopVars, maskVars, scanVars, rbVars>>
    /\ UNCHANGED <<scoreVars, mergeVars, ingestVars>>

\* The loop ends: ipNet.Contains(ip) fails; the network and the broadcast
\* address are cut from ips.
EnumExit ==
    /\ enumPc = "loop"
    /\ ~Contains(enumNet, enumIp)
    /\ enumLen' = IF enumLen > 2 THEN enumLen - 2 ELSE 0
    /\ enumPc' = "done"
    /\ UNCHANGED <<enumNet, enumIp>>
    /\ UNCHANGED <<monVars, jobVars, stopVars, maskVars, scanVars, rbVars>>
    /\ UNCHANGED <<scoreVars, mergeVars, ingestVars>>

EnumIdle ==
    /\ enumNet = 0
    /\ enumIp = 0
    /\ enumLen = 0
    /\ enumPc = "idle"

\* scanSubnetForSSH(cidr) for every well-formed cidr, any address with any
\* prefix length from 0 to the number of address bits, at the head of the
\* loop: net.ParseCIDR gave the network with its address masked to the
\* prefix, and ip := ipNet.IP.Mask(ipNet.Mask).
EnumInit ==
    /\ enumNet \in {[IP |-> MaskIP(ip, ones), ones |-> ones] :
                        ip \in Ips, ones \in 0..AddrBits}
    /\ enumIp = MaskIP(enumNet.IP, enumNet.ones)
    /\ enumLen = 0
    /\ enumPc = "loop"

EnumNext == EnumStep \/ EnumExit

(***************************************************************************)
(* Station-stop ingestion under concurrent reports: each request runs     *)
(* stationStopsApiHandler on a goroutine of its own, and the handlers      *)
(* share the arena.                                                        *)
(***************************************************************************)
\* The reports in flight at once.
MaxHandlers == 2

\* The station ids of the reports, in upper case; "X9" is no station.
IngestStations == {"R1", "B1", "X9"}

\* A handler that has not started.
NoHandler ==
    [pc |-> "idle", station |-> "", eStop |-> FALSE, aStop |-> FALSE,
     at |-> 0, instant |-> FALSE,
     old |-> [Online |-> FALSE, RemoteEStop |-> FALSE, RemoteAStop |-> FALSE],
     caused |-> [online |-> FALSE, stops |-> FALSE],
     logged |-> [online |-> FALSE, stops |-> FALSE]]

\* statuses[station] of a snapshot, as far as the handler compares it: the
\* zero status for an id that is not in the map.
StatusOf(statuses, station) ==
    IF station \in DOMAIN statuses
    THEN [Online |-> statuses[station].Online,
          RemoteEStop |-> statuses[station].RemoteEStop,
          RemoteAStop |-> statuses[station].RemoteAStop]
    ELSE NoHandler.old

\* The differences between two statuses that the handler logs.
Differences(a, b) ==
    [online |-> a.Online # b.Online,
     stops |-> a.RemoteEStop # b.RemoteEStop \/ a.RemoteAStop # b.RemoteAStop]

\* stationStopsApiHandler of report h, past the secret:
\* oldStatuses := web.arena.StationRpiStatuses()
IngestSnapOld(h, station, eStop, aStop) ==
    /\ handlers[h].pc = "idle"
    /\ handlers' = [handlers EXCEPT ![h] =
          [@ EXCEPT !.pc = "update", !.station = station, !.eStop = eStop,
                    !.aStop = aStop, !.at = clock,
                    !.old = StatusOf(StationRpiStatuses, station)]]
    /\ UNCHANGED <<monVars, jobVars, stopVars, maskVars, scanVars, rbVars>>
    /\ UNCHANGED <<scoreVars, mergeVars, enumVars>>

\* web.arena.UpdateRemoteStops(station, req.EStop, req.AStop): 400 and
\* return when it fails.  caused is history: what this update changed, from
\* the status just before it to the status just after it.
IngestUpdate(h) ==
    /\ handlers[h].pc = "update"
    /\ UNCHANGED <<UseStationRpiStops, StationRpiSecret, clock, reports,
                   lastReport, stopPc, view>>
    /\ LET station == handlers[h].station IN
          IF UpdateRemoteStopsFails(station)
          THEN /\ handlers' = [handlers EXCEPT ![h].pc = "rejected"]
               /\ UNCHANGED stations
          ELSE /\ stations' = UpdateRemoteStops(station, handlers[h].eStop,
                                                handlers[h].aStop)
               /\ handlers' = [handlers EXCEPT ![h] =
                     [@ EXCEPT !.pc = "snapNew",
                               !.caused = Differences(
                                   StatusOf(StationRpiStatuses, station),
                                   StatusOf(StationRpiStatuses', station))]]
    /\ UNCHANGED <<monVars, jobVars, maskVars, scanVars, rbVars>>
    /\ UNCHANGED <<scoreVars, mergeVars, enumVars>>

\* newStatuses := web.arena.StationRpiStatuses(), the two comparisons with
\* oldStatuses and their log lines, and the success answer.  instant is
\* history: no time passed since the first snapshot.
IngestSnapNew(h) ==
    /\ handlers[h].pc = "snapNew"
    /\ LET me == handlers[h]
           newStatus == StatusOf(StationRpiStatuses, me.station)
       IN  handlers' = [handlers EXCEPT ![h] =
              [me EXCEPT !.pc = "done",
                         !.instant = (clock = me.at),
                         !.logged = Differences(me.old, newStatus)]]
    /\ UNCHANGED <<monVars, jobVars, stopVars, maskVars, scanVars, rbVars>>
    /\ UNCHANGED <<scoreVars, mergeVars, enumVars>>

IngestIdle == handlers = <<>>

\* The feature is on and no secret is configured; no station has reported.
IngestInit ==
    /\ handlers = [h \in 1..MaxHandlers |-> NoHandler]
    /\ UseStationRpiStops = TRUE
    /\ StationRpiSecret = <<>>
    /\ stations = [st \in StationIds |-> NoStation]
    /\ clock = 1
    /\ reports = 0
    /\ lastReport = NoReport
    /\ stopPc = "idle"
    /\ view = <<>>

IngestNext ==
    \/ \E h \in 1..MaxHandlers, station \in IngestStations,
          eStop \in BOOLEAN, aStop \in BOOLEAN :
          IngestSnapOld(h, station, eStop, aStop)
    \/ \E h \in 1..MaxHandlers : IngestUpdate(h)
    \/ \E h \in 1..MaxHandlers : IngestSnapNew(h)
    \/ ClockTick

\* The parts of the controller that the specifications below leave at rest.
AuxIdle == ScoreIdle /\ MergeIdle /\ EnumIdle /\ IngestIdle

(***************************************************************************)
(* Specifications: the monitor of one switch, the provisioning jobs, and   *)
(* the ingestion handler, each with the rest of the controller at rest.    *)
(***************************************************************************)
MonitorInit == MonInit /\ JobIdle /\ StopsIdle /\ MaskIdle /\ ScanIdle
    /\ RebootIdle /\ AuxIdle
MonitorSpec == MonitorInit /\ [][MonNext]_vars

JobInit == MonIdle /\ JobIdle /\ StopsIdle /\ MaskIdle /\ ScanIdle
    /\ RebootIdle /\ AuxIdle
JobSpec == JobInit /\ [][JobNext]_vars

\* One statement of the goroutine of run i. Every call it makes on the
\* network is bounded by a timeout, so the statement it stands at ends.
RunStep(i) ==
    \/ RunResolve(i)
    \/ RunConnect(i)
    \/ RunConfigure(i)
    \/ RunErrorLine(i)
    \/ RunSummary(i)
    \/ RunSetState(i)

\* The forms of the requests in the runs checked for completion: one that
\* passes validation and one that does not.
LiveForms ==
    {raw \in RawForms : raw.StationId \in {"r1", "x9"}}

JobLiveNext ==
    \/ \E i \in ReqIds, c \in JobClasses, raw \in LiveForms : RunPost(i, c, raw)
    \/ \E i \in ReqIds : RunAdmit(i)
    \/ \E i \in ReqIds : RunStep(i)
    \/ \E i \in ReqIds : RunPanic(i)

\* The jobs with a scheduler that lets every started goroutine run.
JobFairSpec ==
    /\ JobInit
    /\ [][JobLiveNext]_vars
    /\ \A i \in ReqIds : WF_vars(RunStep(i))

\* The jobs with their status handlers.
JobStatusNext ==
    \/ JobLiveNext
    \/ \E c \in JobClasses : StatusQuery(c)

JobStatusSpec == JobInit /\ [][JobStatusNext]_vars

StationInit == MonIdle /\ JobIdle /\ StopsInit /\ MaskIdle /\ ScanIdle
    /\ RebootIdle /\ AuxIdle
StationSpec == StationInit /\ [][StopsNext]_vars

MaskValidationInit == MonIdle /\ JobIdle /\ StopsIdle /\ MaskInit /\ ScanIdle
    /\ RebootIdle /\ AuxIdle
MaskSpec == MaskValidationInit /\ [][MaskNext]_vars

ScanRunInit == MonIdle /\ StopsIdle /\ MaskIdle /\ ScanInit /\ RebootIdle
    /\ AuxIdle

RebootCallInit ==
    MonIdle /\ JobIdle /\ StopsIdle /\ MaskIdle /\ ScanIdle /\ RebootInit /\ AuxIdle
MergeCallInit ==
    /\ MonIdle /\ JobIdle /\ StopsIdle /\ MaskIdle /\ ScanIdle /\ RebootIdle
    /\ ScoreIdle /\ MergeInit /\ EnumIdle /\ IngestIdle
MergeSpec == MergeCallInit /\ [][MergeNext]_vars

ScoreSummaryInit ==
    /\ MonIdle /\ JobIdle /\ StopsIdle /\ MaskIdle /\ ScanIdle /\ RebootIdle
    /\ ScoreInit /\ MergeIdle /\ EnumIdle /\ IngestIdle
ScoreSpec == ScoreSummaryInit /\ [][ScoreNext]_vars

ConcurrentReportsInit ==
    /\ MonIdle /\ JobIdle /\ MaskIdle /\ ScanIdle /\ RebootIdle
    /\ ScoreIdle /\ MergeIdle /\ EnumIdle /\ IngestInit
IngestSpec == ConcurrentReportsInit /\ [][IngestNext]_vars

EnumRunInit ==
    /\ MonIdle /\ JobIdle /\ StopsIdle /\ MaskIdle /\ ScanIdle /\ RebootIdle
    /\ ScoreIdle /\ MergeIdle /\ EnumInit /\ IngestIdle
\* The goroutine that runs the scan keeps running: a step of the loop that
\* can be taken is taken.
EnumFairSpec == EnumRunInit /\ [][EnumNext]_vars /\ WF_vars(EnumNext)

RebootSpec == RebootCallInit /\ [][RebootNext]_vars
ScanSpec == ScanRunInit /\ [][ScanNext]_vars

\* The scan and its run with a scheduler that lets every started goroutine
\* run: the launch loop, each probe (its dial ends within two seconds), the
\* collect loop and the statements of the run.
ScanFairSpec ==
    /\ ScanSpec
    /\ \A i \in ReqIds : WF_vars(ScanStart(i) \/ ScanResolve(i) \/ RunStep(i))
    /\ WF_vars(ScanLaunch \/ ScanCollect)
    /\ WF_vars(\E o \in inFlight : ScanProbe(o))

(***************************************************************************)
(* Properties of the provisioning jobs.                                    *)
(***************************************************************************)
\* The step in which the handler of request i answers 409.
ConflictStep(i) == reqs[i].pc = "locking" /\ reqs'[i].pc = "exited"

\* C1: for each job class at most one asynchronous run is in progress at
\* any time; a request that reaches the single-flight test while the
\* class's state is Running is answered 409, starts no run, and never runs
\* later.
C1_SingleFlight ==
    /\ [](\A c \in JobClasses : Cardinality(ActiveRuns(c)) <= 1)
    /\ [][\A i \in ReqIds :
            /\ (reqs[i].pc = "locking" /\ reqs'[i].pc # "locking"
                /\ jobState[reqs[i].class] = "Running")
                  => /\ ConflictStep(i)
                     /\ reqs'[i].resp = 409
                     /\ \A c \in JobClasses : ActiveRuns(c)' = ActiveRuns(c)
            /\ reqs[i].pc = "exited" => reqs'[i].pc = "exited"]_vars

C1_Witness ==
    \E i, j \in ReqIds :
        /\ reqs[i].resp = 409
        /\ reqs[j].class = reqs[i].class
        /\ reqs[j].pc \in RunPcs
        /\ jobState[reqs[j].class] = "Running"

\* C2: the 409 answer changes neither the state nor the log of the job:
\* no line is appended, removed or replaced by the rejection.
C2_ConflictLeavesJobAlone ==
    [][\A i \in ReqIds :
          ConflictStep(i)
              => /\ jobState' = jobState
                 /\ jobState[reqs[i].class] = "Running"
                 /\ jobLog' = jobLog]_vars

C2_Witness ==
    \E i \in ReqIds :
        /\ reqs[i].resp = 409
        /\ jobState[reqs[i].class] = "Running"
        /\ Len(jobLog[reqs[i].class]) >= 2

\* C19: a Run passes validation only if the static IP, the gateway and
\* at least one DNS entry each parse as an IPv4 address and the mask is
\* valid; an invalid Run is answered 400 at once and leaves the job's
\* state, log and sticky last-submitted parameters unchanged.
C19_OnlyIPv4RunsAccepted ==
    [][\A i \in ReqIds :
          /\ (reqs[i].pc = "unused" /\ reqs'[i].pc = "locking")
                => /\ ParsesAsIPv4(reqs'[i].form.StaticHost)
                   /\ ParsesAsIPv4(reqs'[i].form.Gateway)
                   /\ \E k \in 1..Len(reqs'[i].form.DNS) :
                         ParsesAsIPv4(reqs'[i].form.DNS[k])
                   /\ parseMaskToCIDR(reqs'[i].form.SubnetMask) \in 0..32
          /\ (reqs[i].pc = "unused" /\ reqs'[i].resp = 400)
                => /\ reqs'[i].pc = "exited"
                   /\ jobState' = jobState
                   /\ jobLog' = jobLog
                   /\ jobLast' = jobLast]_vars

\* C20: target resolution of an accepted Run: when the request names a
\* host, that host is the sole target and no scan runs; when it names no
\* host, the subnet is scanned and the targets are the responders.
C20_NoHostMeansScan ==
    [][\A i \in ReqIds :
          (reqs[i].pc = "resolve" /\ reqs'[i].pc = "connect")
              => LET c == reqs[i].class IN
                 IF reqs[i].hostGiven
                 THEN /\ reqs'[i].targets = <<reqs[i].form.Host>>
                      /\ jobLog' = jobLog
                 ELSE /\ Len(jobLog'[c]) > Len(jobLog[c])
                      /\ jobLog'[c][Len(jobLog[c]) + 1].tag = "Scanning"
                      /\ \A k \in 1..Len(reqs'[i].targets) :
                            reqs'[i].targets[k] \in ScanHosts]_vars

(***************************************************************************)
(* Properties of the subnet mask validation.                               *)
(***************************************************************************)
\* The byte that starts with m one-bits (all ones from 8 on, zero up to 0).
PrefixByte(m) ==
    IF m >= 8 THEN 255 ELSE IF m <= 0 THEN 0 ELSE 256 - 2 ^ (8 - m)

\* The four bytes of the mask with n leading one-bits.
PrefixBytes(n) == [k \in 1..4 |-> PrefixByte(n - 8 * (k - 1))]

\* The 32 bits are a run of ones followed by a run of zeros.
Contiguous(bytes) == \E n \in 0..32 : bytes = PrefixBytes(n)

\* C17: every dotted subnet mask whose 32 bits are not a run of ones
\* followed by a run of zeros is rejected by the mask validation, the
\* masks whose gap falls on a byte boundary (255.0.255.0) included.
C17_NonContiguousMaskRejected ==
    (maskPc = "parsed" /\ maskIn.kind = "dotted" /\ ~Contiguous(maskIn.bytes))
        => maskOut = -1

\* C18: for every n in 0..32 the dotted mask with n leading one-bits and
\* the decimal text n both yield the CIDR length n; a decimal value
\* outside 0..32 and the empty text are rejected.
C18_DottedAndDecimalAgree ==
    maskPc = "parsed"
        => /\ \A n \in 0..32 :
                 /\ maskIn = DottedMask(PrefixBytes(n)) => maskOut = n
                 /\ maskIn = DecimalMask(n) => maskOut = n
           /\ (maskIn.kind = "decimal" /\ maskIn.n \notin 0..32) => maskOut = -1
           /\ maskIn = EmptyMask => maskOut = -1

C18_Witness ==
    /\ maskPc = "parsed"
    /\ maskIn = DottedMask(<<255, 255, 254, 0>>)
    /\ maskOut = 23

(***************************************************************************)
(* Properties of the station-stop ingestion.                               *)
(***************************************************************************)
AllSpaces(str) == \A k \in 1..Len(str) : str[k] = " "

\* str is core with white space put before and after it, and core itself
\* neither starts nor ends with white space.
Padded(core, str) ==
    /\ core # <<>> => (core[1] # " " /\ core[Len(core)] # " ")
    /\ \E i \in 0..Len(str) :
          /\ i + Len(core) <= Len(str)
          /\ AllSpaces(SubSeq(str, 1, i))
          /\ SubSeq(str, i + 1, i + Len(core)) = core
          /\ AllSpaces(SubSeq(str, i + Len(core) + 1, Len(str)))

\* A report that got as far as the secret test.
SecretTested ==
    /\ reports > 0
    /\ UseStationRpiStops
    /\ lastReport.wellFormed
    /\ StationRpiSecret # <<>>

\* C10 as stated: with a non-empty secret configured, a report whose secret
\* is not exactly the configured secret is answered 403.
C10_ExactSecretOnly ==
    (SecretTested /\ lastReport.secret # StationRpiSecret)
        => lastReport.status = 403

\* C10 amended: with a non-empty secret configured, a report is answered
\* 403 exactly when its secret with the leading and trailing white space
\* removed is not the configured secret; an accepted report carries the
\* configured secret up to surrounding white space.
C10_TrimmedSecretOnly ==
    /\ SecretTested
          => (lastReport.status = 403
                <=> ~Padded(StationRpiSecret, lastReport.secret))
    /\ (reports > 0 /\ StationRpiSecret # <<>> /\ lastReport.status = 200)
          => Padded(StationRpiSecret, lastReport.secret)

C10_Witness ==
    /\ SecretTested
    /\ lastReport.status = 200
    /\ lastReport.secret # StationRpiSecret

\* The step in which the handler answers a report with an error status.
RejectStep ==
    \/ stopPc = "idle" /\ reports' = reports + 1 /\ lastReport'.status # 0
    \/ stopPc = "update" /\ stopPc' = "idle" /\ lastReport'.status = 400
\* The step in which the handler answers a report with success.
AcceptStep == stopPc = "update" /\ stopPc' = "idle" /\ lastReport'.status = 200

\* C11: every rejected report (503 feature disabled, 400 malformed body,
\* 403 missing or wrong secret, 400 invalid station id) leaves every
\* station's remoteEStop, remoteAStop and lastUpdate unchanged; the
\* stations change in the step of an accepted report only.
C11_RejectedReportChangesNothing ==
    [][/\ RejectStep
            => (stations' = stations /\ lastReport'.status \in {400, 403, 503})
       /\ stations' # stations => AcceptStep]_vars

C11_Witness ==
    /\ reports = MaxReports
    /\ stopPc = "idle"
    /\ lastReport.status = 400
    /\ lastReport.pathId = "x9"
    /\ \E st \in StationIds : stations[st].RemoteEStop

\* pathId written in upper or in lower case names station st.
Addresses(pathId, st) ==
    \/ pathId = st
    \/ <<pathId, st>> \in {<<"r1", "R1">>, <<"r2", "R2">>, <<"r3", "R3">>,
                            <<"b1", "B1">>, <<"b2", "B2">>, <<"b3", "B3">>}

\* C12: the station id of a report is case-normalised and must then be one
\* of R1, R2, R3, B1, B2, B3: a report that passed the secret test is
\* answered 400 and changes nothing when its id names none of the six, and
\* otherwise updates the station its id names in either case, so that r1
\* and R1 address the same station.
C12_StationIdNormalised ==
    [][(stopPc = "update" /\ stopPc' = "idle")
          => IF \E st \in StationIds : Addresses(lastReport'.pathId, st)
             THEN /\ lastReport'.status = 200
                  /\ \A st \in StationIds :
                        IF Addresses(lastReport'.pathId, st)
                        THEN stations'[st].RemoteLastUpdate = clock
                        ELSE stations'[st] = stations[st]
             ELSE /\ lastReport'.status = 400
                  /\ stations' = stations]_vars

C12_Witness ==
    /\ lastReport.pathId = "r1"
    /\ lastReport.status = 200
    /\ stations["R1"].RemoteLastUpdate = clock
    /\ stations["R1"].RemoteEStop

\* C13: while the feature is disabled by configuration, every report is
\* answered 503, whatever its body and secret, before its station id is
\* looked at, and the stations stay as they are.
C13_DisabledIs503 ==
    /\ []((reports > 0 /\ ~UseStationRpiStops)
            => (lastReport.status = 503 /\ stopPc = "idle"))
    /\ [][(stopPc = "idle" /\ reports' = reports + 1 /\ ~UseStationRpiStops)
            => /\ lastReport'.status = 503
               /\ stopPc' = "idle"
               /\ stations' = stations]_vars

C13_Witness ==
    /\ ~UseStationRpiStops
    /\ reports > 0
    /\ lastReport.status = 503
    /\ ~lastReport.wellFormed
    /\ StationRpiSecret # <<>>
    /\ lastReport.secret # StationRpiSecret

\* C14: an accepted report for station S sets S's remoteEStop, remoteAStop
\* to the reported values and S's lastUpdate to the current time in one
\* step, leaves the other five stations unchanged, and S is online in a
\* snapshot taken right after; no state and no view shows stop flags
\* without the lastUpdate that came with them.
C14_AcceptedReportIsAtomic ==
    /\ [][AcceptStep
            => \E S \in StationIds :
                  /\ Addresses(lastReport'.pathId, S)
                  /\ stations'[S] =
                        [RemoteEStop |-> lastReport'.eStop,
                         RemoteAStop |-> lastReport'.aStop,
                         RemoteLastUpdate |-> clock]
                  /\ \A st \in StationIds \ {S} : stations'[st] = stations[st]
                  /\ StationRpiStatuses'[S].Online]_vars
    /\ [](\A st \in StationIds :
             stations[st].RemoteLastUpdate = 0
                => (~stations[st].RemoteEStop /\ ~stations[st].RemoteAStop))
    /\ [](\A k \in 1..Len(view) :
             view[k].LastUpdate = "Never"
                => (~view[k].RemoteEStop /\ ~view[k].RemoteAStop))

C14_Witness ==
    /\ lastReport.status = 200
    /\ lastReport.pathId = "b3"
    /\ lastReport.eStop
    /\ ~lastReport.aStop
    /\ stations["B3"] = [RemoteEStop |-> TRUE, RemoteAStop |-> FALSE,
                         RemoteLastUpdate |-> clock]
    /\ stations["R1"].RemoteAStop
    /\ stations["R1"].RemoteLastUpdate < clock

\* The station has reported less than the staleness threshold ago.
Fresh(st) ==
    /\ stations[st].RemoteLastUpdate # 0
    /\ clock - stations[st].RemoteLastUpdate < StaleAfter

\* The rows a view must have for the stations of D, the others missing
\* from the status map.
ExpectedRows(v, D) ==
    /\ Len(v) = 6
    /\ <<v[1].Station, v[2].Station, v[3].Station,
         v[4].Station, v[5].Station, v[6].Station>>
           = <<"R1", "R2", "R3", "B1", "B2", "B3">>
    /\ \A k \in 1..6 :
          IF v[k].Station \in D
          THEN /\ v[k].Online = Fresh(v[k].Station)
               /\ v[k].RemoteEStop = stations[v[k].Station].RemoteEStop
               /\ v[k].RemoteAStop = stations[v[k].Station].RemoteAStop
          ELSE ~v[k].Online /\ ~v[k].RemoteEStop /\ ~v[k].RemoteAStop

\* C15: the station status view always has exactly six entries in the
\* order R1, R2, R3, B1, B2, B3, whether the status map holds all six
\* stations or only those that have reported; each entry shows the station's current online and stop flags,
\* and a station that never reported is offline with both flags false.
C15_ViewIsSixInOrder ==
    /\ \A D \in {StationIds, {st \in StationIds :
                                 stations[st].RemoteLastUpdate # 0}} :
          ExpectedRows(buildStationRpiStatusView(
                           [st \in D |-> StationRpiStatuses[st]]), D)
    /\ LET v == buildStationRpiStatusView(StationRpiStatuses)
       IN  \A k \in 1..Len(v) :
              stations[v[k].Station].RemoteLastUpdate = 0
                 => (~v[k].Online /\ ~v[k].RemoteEStop /\ ~v[k].RemoteAStop)
    /\ view # <<>> => Len(view) = 6

C15_Witness ==
    /\ Len(view) = 6
    /\ view[1].Station = "R1"
    /\ view[1].Online
    /\ view[1].RemoteEStop
    /\ view[6].Station = "B3"
    /\ ~view[6].Online
    /\ view[6].LastUpdate = "Never"
    /\ view = buildStationRpiStatusView(StationRpiStatuses)

\* The step of a status query.
SnapshotStep ==
    /\ stopPc' = stopPc
    /\ reports' = reports
    /\ clock' = clock

\* C16: a station's online flag is not stored by a report: in every
\* snapshot it equals (now - lastUpdate < staleness threshold), a station
\* that never reported counting as infinitely old, so it is false from the
\* instant the difference reaches the threshold; and a snapshot changes no
\* station's remoteEStop, remoteAStop or lastUpdate.
C16_OnlineIsDerived ==
    /\ [](\A st \in StationIds : StationRpiStatuses[st].Online = Fresh(st))
    /\ [][SnapshotStep
            => /\ stations' = stations
               /\ Len(view') = 6
               /\ \A k \in 1..6 : view'[k].Online = Fresh(view'[k].Station)]_vars
    /\ [][\A st \in StationIds :
            (Fresh(st) /\ ~Fresh(st)')
                => /\ clock' - stations[st].RemoteLastUpdate = StaleAfter
                   /\ stations' = stations]_vars

C16_Witness ==
    /\ Len(view) = 6
    /\ \E k \in 1..6 :
          /\ ~view[k].Online
          /\ view[k].LastUpdate # "Never"
          /\ view[k].RemoteEStop
          /\ clock - stations[view[k].Station].RemoteLastUpdate = StaleAfter

(***************************************************************************)
(* Properties of the health monitor.                                       *)
(***************************************************************************)
\* The step in which updateMonitoring decides, and the step in which it
\* stores into Status.
DecideStep == pollPc = "sampled" /\ pollPc' = "decided"
StoreStep == pollPc = "decided" /\ pollPc' = "sleep"
\* The step in which a Reboot() call returns without having sent a request.
RebootFailStep ==
    reboots' = reboots + 1 /\ rebootPc' = "idle" /\ event' = "rebootFailed"
\* The sample of the current poll differs from the sample before it.
Isolated == (reachable /\ okRun = 1) \/ (~reachable /\ failRun = 1)

C6_UnreachableInGraceIsConfiguring ==
    [][(DecideStep /\ ~reachable /\ InGrace)
          => \/ pollWrite' = "CONFIGURING"
             \/ pollWrite' = "none" /\ Status = "CONFIGURING"]_vars

C6_Witness ==
    /\ pollPc = "decided"
    /\ ~reachable
    /\ InGrace
    /\ failRun >= needFail
    /\ consecutiveFail >= needFail
    /\ pollWrite = "CONFIGURING"

\* C7: after a reboot request has been sent, status becomes ACTIVE only
\* after at least 3 consecutive reachable samples taken after the request.
C7_NoFalseActiveAfterReboot ==
    [][(Status' = "ACTIVE" /\ Status # "ACTIVE" /\ lastRebootAt # 0)
          => okSinceReboot >= needOK]_vars

\* C8: for every device family, when a reboot request has been reported as
\* sent, lastRebootAt is the time of the request and the status is
\* CONFIGURING, before the next poll stores anything.
C8_RebootSentForcesConfiguring ==
    event = "rebootSent"
        => (Status = "CONFIGURING" /\ lastRebootAt # 0 /\ lastRebootAt <= now)

CandidateStep(i) ==
    /\ reqs[i].pc = "resolve"
    /\ reqs[i].form.Host = ""
    /\ reqs'[i].pc = "connect"

\* cand holds the entries of found, each once, the likely gateways behind
\* all the others, and two hosts of the same group in the order they have
\* in found.
StablePartition(found, cand) ==
    /\ Len(cand) = Len(found)
    /\ \E p \in [1..Len(found) -> 1..Len(found)] :
          /\ \A j, k \in 1..Len(found) : j # k => p[j] # p[k]
          /\ \A j \in 1..Len(found) : cand[p[j]] = found[j]
          /\ \A j, k \in 1..Len(found) :
                (j < k /\ LikelyGateway(found[j]) = LikelyGateway(found[k]))
                    => p[j] < p[k]
          /\ \A j, k \in 1..Len(found) :
                (LikelyGateway(found[j]) /\ ~LikelyGateway(found[k]))
                    => p[k] < p[j]

\* C21: the candidate list of a run is a stable partition of the hosts the
\* scan discovered: every host ending in .1 or .254 comes after all the
\* other hosts, the order inside each group is the order of discovery, and
\* no host is dropped or duplicated.
C21_CandidatesAreStablePartition ==
    [][\A i \in ReqIds :
          CandidateStep(i) => StablePartition(scanFound, reqs'[i].targets)]_vars

\* A likely gateway that was discovered first and is attempted last, after
\* two other hosts.
C21_Witness ==
    /\ Len(scanFound) = 3
    /\ scanFound[1] = "10.0.100.1"
    /\ reqs[1].pc = "connect"
    /\ reqs[1].targets = <<scanFound[2], scanFound[3], scanFound[1]>>

\* The step in which the goroutine of run i returns.
EndStep(i) ==
    /\ reqs[i].pc \in {"setdone", "seterror"}
    /\ reqs'[i].pc = "exited"

\* The log of class c holds a line with this tag.
Logged(c, tag) == \E k \in 1..Len(jobLog[c]) : jobLog[c][k].tag = tag

\* C22: when a run ends without a panic the job state is Done exactly when
\* at least one target succeeded; it is Error when every attempted target
\* failed, and when the scan found no candidate, in which case no target
\* was attempted.
C22_DoneIffSomeTargetSucceeded ==
    [][\A i \in ReqIds :
          (EndStep(i) /\ ~reqs[i].panicked) =>
              LET c == reqs[i].class IN
                 /\ jobState'[c] \in {"Done", "Error"}
                 /\ jobState'[c] = "Done" <=> reqs[i].successes > 0
                 /\ reqs[i].successes + reqs[i].failures = reqs[i].idx - 1
                 /\ (reqs[i].failures = reqs[i].idx - 1)
                        => jobState'[c] = "Error"
                 /\ (reqs[i].form.Host = "" /\ scanFound = <<>>)
                        => /\ jobState'[c] = "Error"
                           /\ reqs[i].idx = 1
                           /\ ~Logged(c, "Connecting")]_vars

\* A run over several candidates has ended Done although one of its
\* targets failed.
C22_Witness ==
    \E i \in ReqIds :
        /\ reqs[i].pc = "exited"
        /\ ~reqs[i].panicked
        /\ jobState[reqs[i].class] = "Done"
        /\ Logged(reqs[i].class, "Failures")
        /\ Len(scanFound) > 1

\* The step in which the goroutine of run i panics and the deferred
\* function recovers.
PanicStep(i) ==
    /\ reqs[i].pc \in RunPcs
    /\ ~reqs[i].panicked
    /\ reqs'[i].panicked

\* The step in which the handler of request j decides between 409 and the
\* start of a run.
AdmitStep(j) ==
    /\ reqs[j].pc = "locking"
    /\ reqs'[j].pc # "locking"

\* C23: a panic of the asynchronous run is recovered at the job boundary:
\* the panic line is appended to the log, the run that panicked ends with
\* the job state Error, a job is Running only while its goroutine has not
\* returned, and a Run posted after the panicked run has ended is accepted.
C23_PanicEndsInError ==
    /\ [][\A i \in ReqIds :
             /\ PanicStep(i) =>
                   jobLog'[reqs[i].class] =
                       Append(jobLog[reqs[i].class], Line("panic", ""))
             /\ (EndStep(i) /\ reqs[i].panicked) =>
                   jobState'[reqs[i].class] = "Error"
             /\ (AdmitStep(i) /\ ActiveRuns(reqs[i].class) = {}) =>
                   /\ reqs'[i].resp = 303
                   /\ reqs'[i].pc = "resolve"]_vars
    /\ [](\A c \in JobClasses : jobState[c] = "Running" => ActiveRuns(c) # {})

\* A run has panicked and ended, and a later Run of the same class has
\* been accepted.
C23_Witness ==
    \E i, j \in ReqIds :
        /\ reqs[i].pc = "exited"
        /\ reqs[i].panicked
        /\ reqs[j].class = reqs[i].class
        /\ reqs[j].pc = "resolve"
        /\ reqs[j].resp = 303
        /\ jobLog[reqs[j].class][1].tag = "Starting..."
        /\ Len(jobLog[reqs[j].class]) = 1

\* C24: every accepted Run runs to completion: a job that is Running is
\* later Done or Error, and a job that is Done or Error changes its state
\* only in the step that accepts the next Run of its class.
C24_RunsComplete ==
    /\ \A c \in JobClasses :
          (jobState[c] = "Running") ~> (jobState[c] \in {"Done", "Error"})
    /\ [][\A c \in JobClasses :
             (jobState[c] \in {"Done", "Error"} /\ jobState'[c] # jobState[c])
                 => /\ jobState'[c] = "Running"
                    /\ \E j \in ReqIds :
                          /\ AdmitStep(j)
                          /\ reqs[j].class = c
                          /\ reqs'[j].resp = 303]_vars

\* Two runs of one class were accepted one after the other and both have
\* run to their end.
C24_Witness ==
    \E i, j \in ReqIds :
        /\ i # j
        /\ reqs[i].class = reqs[j].class
        /\ reqs[i].pc = "exited" /\ reqs[i].resp = 303
        /\ reqs[j].pc = "exited" /\ reqs[j].resp = 303
        /\ jobState[reqs[i].class] = "Done"

\* The part of C24 that rests on the scan: a run that scans is later Done
\* or Error, and the scan has then received a result for every probe.
ScanRunsComplete ==
    \A c \in JobClasses :
        (jobState[c] = "Running") ~> (jobState[c] \in {"Done", "Error"})

(***************************************************************************)
(* The reboot scenario of the device with the 40 s grace window.           *)
(***************************************************************************)
\* A poll of the device with the 40 s grace window decides after a reboot
\* request was sent.
GraceScenarioDecide ==
    /\ DecideStep
    /\ rebootGrace = tplinkGrace
    /\ lastRebootAt # 0

Attempted(c) ==
    LET sel == SelectSeq(jobLog[c], LAMBDA l : l.tag = "Connecting")
    IN  [k \in 1..Len(sel) |-> sel[k].arg]

\* The scan has launched every probe and has received the result of each.
ScanComplete ==
    /\ scanPc = "done"
    /\ launched = Len(scanIps)
    /\ received = Len(scanIps)
    /\ inFlight = {}
    /\ scanOut = <<>>
    /\ \A k \in 1..Len(scanIps) : dials[scanIps[k]] = 1

\* The number of targets a run at this position has started on.
Started(r) ==
    CASE r.pc = "resolve" -> 0
      [] r.pc = "connect" -> r.idx - 1
      [] r.pc \in {"configure", "errline"} -> r.idx
      [] OTHER -> Len(r.targets)

\* C26: a run that scans starts on its first target only after the scan has
\* a result for every address it probed; it takes the candidates one at a
\* time in the order of the list, each exactly once; a target that fails is
\* logged and the run goes on with the next one.
C26_TargetsInOrderAfterScan ==
    /\ [](\A i \in ReqIds :
             (reqs[i].pc \in RunPcs /\ reqs[i].form.Host = ""
                  /\ ~reqs[i].panicked) =>
                 LET r == reqs[i] IN
                    /\ Attempted(r.class) = SubSeq(r.targets, 1, Started(r))
                    /\ \A j, k \in 1..Len(r.targets) :
                          j # k => r.targets[j] # r.targets[k]
                    /\ r.successes + r.failures =
                          IF r.pc = "configure" THEN r.idx - 1 ELSE Started(r)
                    /\ (r.pc # "resolve") => ScanComplete)
    /\ [][\A i \in ReqIds :
             (reqs[i].pc = "errline" /\ reqs'[i] # reqs[i]
                  /\ ~reqs'[i].panicked) =>
                 /\ jobLog'[reqs[i].class] =
                       Append(jobLog[reqs[i].class],
                              Line("Error configuring",
                                   reqs[i].targets[reqs[i].idx]))
                 /\ reqs'[i].idx = reqs[i].idx + 1
                 /\ reqs'[i].pc = "connect"]_vars

\* After two candidates that failed, the run is at work on the third.
C26_Witness ==
    \E i \in ReqIds :
        /\ reqs[i].pc = "configure"
        /\ reqs[i].form.Host = ""
        /\ Len(reqs[i].targets) = 3
        /\ reqs[i].idx = 3
        /\ reqs[i].failures = 2
        /\ Attempted(reqs[i].class) = reqs[i].targets

\* The step in which configurePi / configureStopsPi returns to run i.
ConfigureStep(i) ==
    /\ reqs[i].pc = "configure"
    /\ reqs'[i].pc \in {"connect", "errline"}

\* C27: a launch under sudo that fails with an error of the connection
\* reset or timeout class counts the target as a success when the host no
\* longer answers, and as a failure when the host still answers.
C27_DroppedLaunchIsSuccess ==
    [][\A i \in ReqIds :
          (ConfigureStep(i) /\ reqs'[i].lastErr.step = "sudo launch"
               /\ reqs'[i].lastErr.drop) =>
              IF reqs'[i].lastErr.hostUp
              THEN /\ reqs'[i].failures = reqs[i].failures + 1
                   /\ reqs'[i].successes = reqs[i].successes
              ELSE /\ reqs'[i].successes = reqs[i].successes + 1
                   /\ reqs'[i].failures = reqs[i].failures]_vars

(***************************************************************************)
(* Properties of the Netgear reboot (RebootSpec).                          *)
(***************************************************************************)
\* The errors of the POST that are of the connection reset or timeout
\* class.
DropOrTimeoutClass ==
    {"read: connection reset by peer", "write: connection aborted",
     "write: broken pipe", "use of closed network connection",
     "Client.Timeout exceeded while awaiting headers",
     "context deadline exceeded", "EOF"}

\* rebootWithLogin has returned after an error of the reboot POST.
PostFailed == rbPc \in {"returned", "done"} /\ rbPostErr # ""

\* rebootWithLogin has returned after a response to the reboot POST.
PostAnswered == rbPc \in {"returned", "done"} /\ rbHttp # ""

IsPrefix(a, b) == Len(a) <= Len(b) /\ SubSeq(b, 1, Len(a)) = a

\* The step in which a Run of class c is accepted.
AcceptedRunStep(c) ==
    \E j \in ReqIds :
        /\ AdmitStep(j)
        /\ reqs[j].class = c
        /\ reqs'[j].resp = 303

\* C29: within a run the job log only grows at its end: every step that
\* changes the log of a class either appends to it, so that the log read
\* before is a prefix of the log read after, or is the step that accepts a
\* Run of that class, which replaces the log by the single seed line; no
\* other step replaces it.
C29_LogIsAppendOnly ==
    [][\A c \in JobClasses :
          IF AcceptedRunStep(c)
          THEN /\ Len(jobLog'[c]) = 1
               /\ jobLog'[c][1].tag = "Starting..."
          ELSE IsPrefix(jobLog[c], jobLog'[c])]_vars

\* A second run of a class is at work on its target: the log of the first
\* run is gone and the log holds the seed line and what followed it.
C29_Witness ==
    \E i, j \in ReqIds :
        /\ reqs[i].pc = "exited" /\ reqs[i].resp = 303 /\ ~reqs[i].panicked
        /\ reqs[j].class = reqs[i].class
        /\ reqs[j].pc = "configure"
        /\ Len(jobLog[reqs[j].class]) = 2
        /\ jobLog[reqs[j].class][1].tag = "Starting..."
        /\ jobLog[reqs[j].class][2].tag = "Connecting"

(***************************************************************************)
(* The addresses the scan probes and returns.                              *)
(***************************************************************************)
\* The network address and the broadcast address of the scanned subnet.
NetworkAddress == scanCidr.ip - (scanCidr.ip % (2 ^ scanCidr.hostBits))
BroadcastAddress == NetworkAddress + (2 ^ scanCidr.hostBits) - 1

\* The addresses of the subnet other than these two; none when the subnet
\* has no more than two addresses.
UsableHosts ==
    IF 2 ^ scanCidr.hostBits <= 2
    THEN {}
    ELSE (NetworkAddress + 1)..(BroadcastAddress - 1)

\* C30: the scan dials exactly the addresses of the subnet other than the
\* network and the broadcast address, each once, and returns exactly those
\* of them that accepted the dial, each once; for a subnet of at most two
\* addresses it dials nothing and returns nothing.
C30_ScanProbesUsableHostsOnce ==
    /\ \A o \in DOMAIN dials : dials[o] <= 1
    /\ \A o \in DOMAIN dials : dials[o] = 1 => o \in UsableHosts
    /\ \A k \in 1..Len(scanFound) :
          \E o \in UsableHosts \cap sshOpen : scanFound[k] = IpText(o)
    /\ \A j, k \in 1..Len(scanFound) : j # k => scanFound[j] # scanFound[k]
    /\ scanPc = "done" =>
          /\ \A o \in UsableHosts : dials[o] = 1
          /\ Len(scanFound) = Cardinality(UsableHosts \cap sshOpen)
          /\ Len(scanIps) = Cardinality(UsableHosts)

\* All four addresses of 10.0.100.0/30 accept a dial; the scan has ended
\* and returned the two between the network and the broadcast address.
C30_Witness ==
    /\ scanPc = "done"
    /\ scanCidr = [ip |-> 0, hostBits |-> 2]
    /\ sshOpen = {0, 1, 2, 3}
    /\ Len(scanFound) = 2
    /\ dials = (0 :> 0) @@ (1 :> 1) @@ (2 :> 1) @@ (3 :> 0)

(***************************************************************************)
(* Properties of the health monitor: the status cycle (MonitorSpec).       *)
(***************************************************************************)
\* C31: a device starts UNKNOWN and no step brings it back to UNKNOWN; the
\* poll that completes 3 consecutive reachable samples leaves ACTIVE (it
\* stores ACTIVE, or stores nothing because the status it read is ACTIVE),
\* from ERROR, CONFIGURING and UNKNOWN alike; and the poll that completes 5
\* consecutive unreachable samples outside the grace window leaves ERROR, from
\* any status.
C31_NoTerminalStatus ==
    /\ Status = "UNKNOWN"
    /\ [][/\ Status' = "UNKNOWN" => Status = "UNKNOWN"
          /\ (DecideStep /\ reachable /\ okRun >= needOK)
               => \/ pollWrite' = "ACTIVE"
                  \/ pollWrite' = "none" /\ Status = "ACTIVE"
          /\ (DecideStep /\ ~reachable /\ failRun >= needFail /\ ~InGrace)
               => \/ pollWrite' = "ERROR"
                  \/ pollWrite' = "none" /\ Status = "ERROR"
          /\ (StoreStep /\ pollWrite # "none") => Status' = pollWrite]_vars

\* The third consecutive reachable poll of a Netgear switch in ERROR has
\* decided ACTIVE.
C31_Witness ==
    /\ family = "netgear"
    /\ pollPc = "decided"
    /\ Status = "ERROR"
    /\ reachable
    /\ okRun = needOK
    /\ failRun = 0
    /\ pollWrite = "ACTIVE"

\* C32: the status is read and written under a per-device lock, so a poll
\* that took its sample before a reboot request does not overwrite the
\* CONFIGURING that request set: when the request was stamped and reported
\* sent while the poll was under way (lastRebootAt is the time of the poll's
\* own sample), the store of that poll leaves CONFIGURING.
C32_PollKeepsRebootConfiguring ==
    [][(/\ StoreStep
        /\ family = "netgear"
        /\ event = "rebootSent"
        /\ lastRebootAt = now
        /\ Status = "CONFIGURING")
          => Status' = "CONFIGURING"]_vars

(***************************************************************************)
(* Properties of the job status query (JobStatusSpec).                     *)
(***************************************************************************)
\* The step in which a status handler of class c takes its snapshot.
StatusQueryStep(c) == jobSnap' # NoSnap /\ jobSnap'.class = c

\* C33: the status query is read-only and atomic: the step of the query
\* changes neither the state, the log, the sticky values nor any request or
\* run, and the pair it answers is the state and the log the job holds at
\* that one instant; so an answered pair is never a state with the log of
\* another moment: it has no line before the first run, and it starts with
\* the seed line of a run afterwards.
C33_StatusQueryIsAtomicSnapshot ==
    /\ [](jobSnap # NoSnap =>
            IF jobSnap.state = ""
            THEN jobSnap.log = <<>>
            ELSE Len(jobSnap.log) >= 1 /\ jobSnap.log[1].tag = "Starting...")
    /\ [][\A c \in JobClasses :
            StatusQueryStep(c) =>
                /\ UNCHANGED <<jobState, jobLog, jobLast, reqs>>
                /\ jobSnap'.state = jobState[c]
                /\ jobSnap'.log = jobLog[c]]_vars

\* A status query answered while a run of its class is at work on a target.
C33_Witness ==
    /\ jobSnap.state = "Running"
    /\ Len(jobSnap.log) >= 2
    /\ \E i \in ReqIds :
          /\ reqs[i].class = jobSnap.class
          /\ reqs[i].pc = "configure"

\* The lines that end the log of a run: the summary lines, the line of an
\* empty scan and the line of a recovered panic.
DoneLines == {"Configured OK", "Failures"}
ErrorLines ==
    {"All attempts failed", "No targets attempted.", "No hosts found.", "panic"}

\* A status answer whose state is st holds the log of its class as it is
\* now, and that log ends with one of the lines tags.
SnapComplete(st, tags) ==
    jobSnap.state = st
        => /\ jobSnap.log = jobLog[jobSnap.class]
           /\ jobSnap.log[Len(jobSnap.log)].tag \in tags

\* C38: no line is appended to the log of a job whose state is not Running:
\* while the state is "", Done or Error the log changes only by the step that
\* accepts the next Run; and a status answer that shows Done or Error holds
\* the whole log of that run, its last line being the final summary, error
\* or panic line.
C38_LogCompleteWhenRunEnds ==
    /\ [](SnapComplete("Done", DoneLines) /\ SnapComplete("Error", ErrorLines))
    /\ [][\A c \in JobClasses :
            (jobState[c] # "Running" /\ jobLog'[c] # jobLog[c])
                => AcceptedRunStep(c)]_vars

\* A status answer that shows Done: the log of the finished run, ending with
\* its summary line, and no run at work.
C38_Witness ==
    /\ jobSnap.state = "Done"
    /\ Len(jobSnap.log) >= 4
    /\ jobSnap.log[Len(jobSnap.log)].tag = "Configured OK"
    /\ \A i \in ReqIds : reqs[i].pc \notin RunPcs

(***************************************************************************)
(* The sticky values of a job (JobSpec).                                   *)
(***************************************************************************)
\* C37: a Run answered 409 leaves the sticky values of its job as they were:
\* after the rejection they are the parameters of the run in progress.
C37_ConflictKeepsStickyValues ==
    [][\A i \in ReqIds :
          ConflictStep(i)
              => \E k \in ActiveRuns(reqs[i].class) :
                     jobLast'[reqs[i].class] = reqs[k].form]_vars

(***************************************************************************)
(* The answer to an unauthenticated report (StationSpec).                  *)
(***************************************************************************)
\* The step in which the handler reads the feature switch, the body and the
\* secret of a report.
ArriveStep == stopPc = "idle" /\ reports' = reports + 1

\* C39: with the feature on and a secret configured, every well-formed
\* report whose secret is missing or wrong is answered 403 in the step that
\* tests the secret: the handler has not read the station id of the path
\* nor any station, it changes no station, and it is done; so two such
\* reports get the same answer whatever their station ids and whatever the
\* stations hold.
C39_UnauthenticatedAnswerIs403 ==
    [][(/\ ArriveStep
        /\ UseStationRpiStops
        /\ StationRpiSecret # <<>>
        /\ lastReport'.wellFormed
        /\ TrimSpace(lastReport'.secret) # StationRpiSecret)
          => /\ lastReport'.status = 403
             /\ lastReport'.pathId = ""
             /\ stopPc' = "idle"
             /\ stations' = stations]_vars

\* A report with a wrong secret answered 403 after an accepted report has
\* set the stops of a station.
C39_Witness ==
    /\ reports = 2
    /\ stopPc = "idle"
    /\ StationRpiSecret # <<>>
    /\ lastReport.wellFormed
    /\ TrimSpace(lastReport.secret) \notin {<<>>, StationRpiSecret}
    /\ lastReport.status = 403
    /\ \E st \in StationIds : stations[st].RemoteEStop

(***************************************************************************)
(* Properties of the challenge merge (MergeSpec).                          *)
(***************************************************************************)
Min(m, n) == IF m < n THEN m ELSE n

\* C35: the merge of password a and nonce b is their interleaving: it has
\* Len(a) + Len(b) characters; while both have characters left it takes one
\* of a, then one of b; then it holds the rest of the longer one in order;
\* and with an empty nonce it is the password.
C35_MergeInterleaves ==
    mergePc = "merged" =>
        LET both == Min(Len(mergeA), Len(mergeB)) IN
        /\ Len(mergeOut) = Len(mergeA) + Len(mergeB)
        /\ \A k \in 1..both :
              /\ mergeOut[2 * k - 1] = mergeA[k]
              /\ mergeOut[2 * k] = mergeB[k]
        /\ \A k \in (both + 1)..Len(mergeA) : mergeOut[both + k] = mergeA[k]
        /\ \A k \in (both + 1)..Len(mergeB) : mergeOut[both + k] = mergeB[k]
        /\ mergeB = <<>> => mergeOut = mergeA

\* A password longer than the nonce, with different characters, merged.
C35_Witness ==
    /\ mergePc = "merged"
    /\ mergeA = <<"p", "p", "p">>
    /\ mergeB = <<"7", "7">>
    /\ mergeOut = <<"p", "7", "p", "7", "p">>

\* C34: summarising an unchanged score and opponent score any number of
\* times gives the same MatchPoints, FoulPoints and Score each time, with
\* Score = MatchPoints + FoulPoints; the summary is all zero when PlayoffDq
\* is set; and no count of a scoring element is kept in the score.
C34_SummaryIsIdempotent ==
    /\ score.GenericScoring = NilMap
    /\ \A i \in 1..Len(summaries) :
          /\ summaries[i].Score
                = summaries[i].MatchPoints + summaries[i].FoulPoints
          /\ summaries[i].MatchPoints = summaries[1].MatchPoints
          /\ summaries[i].FoulPoints = summaries[1].FoulPoints
          /\ summaries[i].Score = summaries[1].Score
          /\ score.PlayoffDq => summaries[i] = NewScoreSummary

\* Three summaries of one score to which a counter and a multistate widget
\* of scoring elements, a plain toggle and the fouls of the opponent all
\* contribute.
C34_Witness ==
    /\ Len(summaries) = MaxCalls
    /\ ~score.PlayoffDq
    /\ MapInt(score.GenericCounters, "c2") = 2
    /\ "t2" \in DOMAIN score.GenericToggles.m
    /\ score.GenericToggles.m["t2"]
    /\ "m1" \in DOMAIN score.GenericStates.m
    /\ score.GenericStates.m["m1"] = "high"
    /\ summaries[MaxCalls].MatchPoints = 2 * 5 + 3 + 4 + 1 * 2
    /\ summaries[MaxCalls].FoulPoints = 7
    /\ summaries[MaxCalls].Score = 26

\* Summaries of a disqualified score that has widget values and fouls.
C34_WitnessDq ==
    /\ Len(summaries) >= 2
    /\ score.PlayoffDq
    /\ MapInt(score.GenericCounters, "c1") > 0
    /\ oppFouls # <<>>

EnumEndsBelowWholeSpace == (enumNet.ones > 0) ~> (enumPc = "done")

\* The enumeration of the top half of the address space has ended: incIP
\* wrapped to the all-zero address, which the subnet does not contain.
EnumTopOfSpaceEnded ==
    /\ enumPc = "done"
    /\ enumNet.ones = 1
    /\ enumNet.IP[1] # 0
    /\ enumIp = [j \in 1..IpLen |-> 0]

\* C40: when reports are handled concurrently, every handler that answers
\* success logs exactly the changes its own update caused: the stop-flag
\* line if and only if its update changed a stop flag, the online line if
\* and only if its update changed the online state.  Handlers during which
\* time passed are left out, so that only other reports can interfere.
C40_HandlerLogsItsOwnChanges ==
    \A h \in 1..MaxHandlers :
        (handlers[h].pc = "done" /\ handlers[h].instant)
            => handlers[h].logged = handlers[h].caused
====
